---- MODULE Spec2Model ----
(***************************************************************************)
(* A model of the ttyx terminal UI: the scroll cursor (pages/mod.rs), the  *)
(* page registry and action pump (app.rs) with the pages it registers,     *)
(* the login form with its request tasks (pages/login.rs) and the toast    *)
(* stack (pages/components/toast.rs).                                      *)
(*                                                                         *)
(* Each part of the program has its own specification (SpecScroll,         *)
(* SpecApp, SpecLogin, SpecToast, SpecBrowser, SpecList, SpecMouse,        *)
(* SpecQuit, SpecConf, SpecKeys, SpecForm, ...);                           *)
(* the variables of the other parts stay at their initial values under it. *)
(***************************************************************************)
EXTENDS Integers, Sequences, FiniteSets, TLC

VARIABLES
    ss,           \* a ScrollState: [position, view_size, max]
    sop,          \* the last operation called on ss
    current_mode, \* App.current_mode: the Page being shown
    input_mode,   \* App.input_mode
    app_tx,       \* App.tx: whether App holds an action sender
    login_page,   \* the Login page of the registry: [input, character_index, input_mode]
    text_input,   \* the text-input page of the registry, same fields; it holds a sender
    queue,        \* the actions in the unbounded channel, oldest first
    drawn,        \* what the last App::run drew
    ev,           \* the last call made on App and what it did
    seen_notfound, \* whether some App::run has drawn the NotFound view
    lg,           \* the login form (pages/login.rs): [menu_index, mode, email, password, crashed]
    chan,         \* the actions in the form's action channel, oldest first
    tasks,        \* the request tasks that have not ended: [kind, pc, sent]
    lev,          \* the last step of the login form: [kind], and for the end of a
                  \* task [kind, task, outcome, panicked, sent]
    toasts,       \* Toast.toasts: the Modals, front first: [title, duration, steps]
    elapsed,      \* the time since Toast.render_start_time, in clock ticks
    render_frames, \* Toast.render_frames
    tev,          \* the last step of the toast component: [kind, removed]
    fb,           \* the Filebrowser page with its Filestats and Filepicker children
    fbev,         \* the last call made on the Filebrowser and what it produced
    sl,           \* a StatefulList: [len, selected, crashed] and its last two calls
    ml,           \* a MouseListState: [position, view_size, selected, max] and its last call
    qt,           \* the Quit confirmation: [show, menu_index, action_tx] and its last calls
    cf,           \* a run of AppConfiguration::init and configure
    kb            \* a key text, the key event parsed from it and the text it prints as

scrollVars == <<ss, sop>>

appVars == <<current_mode, input_mode, app_tx, login_page, text_input, queue,
             drawn, ev, seen_notfound>>

loginVars == <<lg, chan, tasks, lev>>

toastVars == <<toasts, elapsed, render_frames, tev>>

browserVars == <<fb, fbev>>

listVars == <<sl>>

mouseVars == <<ml>>

quitVars == <<qt>>

confVars == <<cf>>

keyVars == <<kb>>

notScroll == <<appVars, loginVars, toastVars, browserVars, listVars, mouseVars,
               quitVars, confVars, keyVars>>

notApp == <<scrollVars, loginVars, toastVars, browserVars, listVars, mouseVars,
            quitVars, confVars, keyVars>>

notLogin == <<scrollVars, appVars, toastVars, browserVars, listVars, mouseVars,
              quitVars, confVars, keyVars>>

notToast == <<scrollVars, appVars, loginVars, browserVars, listVars, mouseVars,
              quitVars, confVars, keyVars>>

notBrowser == <<scrollVars, appVars, loginVars, toastVars, listVars, mouseVars,
                quitVars, confVars, keyVars>>

notList == <<scrollVars, appVars, loginVars, toastVars, browserVars, mouseVars,
             quitVars, confVars, keyVars>>

notMouse == <<scrollVars, appVars, loginVars, toastVars, browserVars, listVars,
              quitVars, confVars, keyVars>>

notQuit == <<scrollVars, appVars, loginVars, toastVars, browserVars, listVars,
             mouseVars, confVars, keyVars>>

notConf == <<scrollVars, appVars, loginVars, toastVars, browserVars, listVars,
             mouseVars, quitVars, keyVars>>

notKeys == <<scrollVars, appVars, loginVars, toastVars, browserVars, listVars,
             mouseVars, quitVars, confVars>>

vars == <<ss, sop, current_mode, input_mode, app_tx, login_page, text_input,
          queue, drawn, ev, seen_notfound, lg, chan, tasks, lev, toasts,
          elapsed, render_frames, tev, fb, fbev, sl, ml, qt, cf, kb>>

(***************************************************************************)
(* usize arithmetic.  The values of the model stay far below usize::MAX,   *)
(* so saturating_add never saturates; saturating_sub stops at 0.           *)
(***************************************************************************)
SatSub(a, b) == IF a >= b THEN a - b ELSE 0

SatAdd(a, b) == a + b

(***************************************************************************)
(* ScrollState (pages/mod.rs)                                              *)
(***************************************************************************)
MaxM == 6
MaxV == 4

\* ScrollState::new(max) followed by an assignment of the public view_size
\* field (draw sets it to the height of the body area).
ScrollStateOf(m, v) == [position |-> 0, view_size |-> v, max |-> m]

\* the threshold both scroll_down and scroll_up use
ScrollEdge(s) == SatSub(s.max, s.view_size - (s.view_size \div 6))

scroll_down(s) ==
    LET p == SatAdd(s.position, 1)
    IN  [s EXCEPT !.position = IF p > ScrollEdge(s) THEN s.max ELSE p]

scroll_up(s) ==
    [s EXCEPT !.position = IF s.position >= s.max
                           THEN ScrollEdge(s)
                           ELSE SatSub(s.position, 1)]

scroll_top(s) == [s EXCEPT !.position = 0]

scroll_bottom(s) == [s EXCEPT !.position = SatSub(s.max, s.view_size)]

scroll_page_down(s) == [s EXCEPT !.position = SatAdd(s.position, s.view_size)]

scroll_page_up(s) == [s EXCEPT !.position = SatSub(s.position, s.view_size)]

ScrollIdle == ss = ScrollStateOf(0, 1) /\ sop = "new"

ScrollDown == ss' = scroll_down(ss) /\ sop' = "scroll_down" /\ UNCHANGED notScroll

ScrollUp == ss' = scroll_up(ss) /\ sop' = "scroll_up" /\ UNCHANGED notScroll

ScrollTop == ss' = scroll_top(ss) /\ sop' = "scroll_top" /\ UNCHANGED notScroll

ScrollBottom == ss' = scroll_bottom(ss) /\ sop' = "scroll_bottom" /\ UNCHANGED notScroll

NextScroll ==
    \/ ScrollDown
    \/ ScrollUp
    \/ ScrollTop
    \/ ScrollBottom

\* C1: after any sequence of scroll_up, scroll_down, scroll_top and
\* scroll_bottom calls from position 0, the position lies between 0 and
\* max.saturating_sub(view_size).
C1_PositionInRange ==
    /\ ss.position >= 0
    /\ ss.position <= SatSub(ss.max, ss.view_size)

\* scroll_page_down and scroll_page_up join the four calls above
MaxPage == 10

ScrollPageDown ==
    /\ scroll_page_down(ss).position <= MaxPage
    /\ ss' = scroll_page_down(ss)
    /\ sop' = "scroll_page_down"
    /\ UNCHANGED notScroll

ScrollPageUp == ss' = scroll_page_up(ss) /\ sop' = "scroll_page_up" /\ UNCHANGED notScroll

NextPage ==
    \/ NextScroll
    \/ ScrollPageDown
    \/ ScrollPageUp

(***************************************************************************)
(* The page registry and the action pump (app.rs), with the pages          *)
(* App::new registers: Login, Settings (the text input that holds the      *)
(* action sender) and Help (Clip).  Home has no page.                      *)
(***************************************************************************)
MaxInput == 1
MaxQueue == 2

Pages == {"Login", "Home", "Settings", "Help"}

\* the keys of App::new's HashMap
Registered == {"Login", "Settings", "Help"}

Chars == {"q", "h", "m", "i", "e"}

Keys == Chars \cup {"Enter", "Backspace", "Left", "Right", "Esc"}

ChangePage(p) == [type |-> "ChangePage", page |-> p, text |-> 0]

SubmitEmail(s) == [type |-> "SubmitEmail", page |-> "Login", text |-> s]

(***************************************************************************)
(* The text of an input field is represented by its number of characters   *)
(* (input.chars().count()): no operation of the program depends on which   *)
(* characters the field holds.  The characters of the model are one byte   *)
(* each.                                                                   *)
(***************************************************************************)

\* TextInput::new and Login::new: an empty field in Normal mode
NewInput == [input |-> 0, character_index |-> 0, input_mode |-> "Normal"]

Min(a, b) == IF a < b THEN a ELSE b

Clamp(x, lo, hi) == IF x < lo THEN lo ELSE IF x > hi THEN hi ELSE x

\* the new position taken as it is
clamp_cursor_unclamped(t, new_cursor_pos) == new_cursor_pos

clamp_cursor(t, new_cursor_pos) == Clamp(new_cursor_pos, 0, t.input)

move_cursor_left(t) ==
    [t EXCEPT !.character_index = clamp_cursor(t, SatSub(t.character_index, 1))]

move_cursor_right(t) ==
    [t EXCEPT !.character_index = clamp_cursor(t, SatAdd(t.character_index, 1))]

\* String::insert adds one character at byte_index()
enter_char(t) == move_cursor_right([t EXCEPT !.input = t.input + 1])

\* chars().take(current_index - 1) chained with chars().skip(current_index)
delete_char(t) ==
    IF t.character_index # 0
    THEN LET current_index == t.character_index
             before_char_to_delete == Min(current_index - 1, t.input)
             after_char_to_delete == SatSub(t.input, current_index)
         IN  move_cursor_left([t EXCEPT !.input = before_char_to_delete
                                                  + after_char_to_delete])
    ELSE t

reset_cursor(t) == [t EXCEPT !.character_index = 0]

\* TextInput::submit_message: the field after the call, and the action sent
\* (it carries a clone of self.input, taken after input.clear()).
\* The write-only history `messages` is not part of the model.
submit_message(t) ==
    LET cleared == [reset_cursor([t EXCEPT !.input = 0])
                        EXCEPT !.input_mode = "Normal"]
    IN  [page |-> cleared, sent |-> <<SubmitEmail(cleared.input)>>]

\* Login::submit_message (components/login.rs): clears the field, sends nothing
login_submit_message(t) == reset_cursor([t EXCEPT !.input = 0])

\* the editing keys the two pages share
EditKey(t, key) ==
    CASE key \in Chars -> enter_char(t)
      [] key = "Backspace" -> delete_char(t)
      [] key = "Left" -> move_cursor_left(t)
      [] key = "Right" -> move_cursor_right(t)
      [] key = "Esc" -> [t EXCEPT !.input_mode = "Normal"]
      [] OTHER -> t

\* TextInput::handle_events: [handled, page, sent]
TextInputHandle(t, key) ==
    IF t.input_mode = "Normal"
    THEN [handled |-> "None",
          page |-> IF key = "e" THEN [t EXCEPT !.input_mode = "Editing"] ELSE t,
          sent |-> IF key = "i" THEN <<ChangePage("Home")>> ELSE <<>>]
    ELSE IF key = "Enter"
         THEN [handled |-> "True",
               page |-> submit_message(t).page,
               sent |-> submit_message(t).sent]
         ELSE [handled |-> "True", page |-> EditKey(t, key), sent |-> <<>>]

\* Login::handle_events (components/login.rs): [handled, page]
LoginHandle(t, key) ==
    IF t.input_mode = "Normal"
    THEN [handled |-> "None",
          page |-> IF key = "e" THEN [t EXCEPT !.input_mode = "Editing"] ELSE t]
    ELSE [handled |-> "True",
          page |-> IF key = "Enter" THEN login_submit_message(t)
                   ELSE EditKey(t, key)]

\* Clip::handle_events
ClipHandle == "None"

\* the pages App::handle_events hands the key to
Receivers(mode) == {p \in Registered : p = mode}

\* the result of the page handlers, as App::handle_events keeps it
PageHandled(mode, key) ==
    CASE "Login" \in Receivers(mode) -> LoginHandle(login_page, key).handled
      [] "Settings" \in Receivers(mode) -> TextInputHandle(text_input, key).handled
      [] "Help" \in Receivers(mode) -> ClipHandle
      [] OTHER -> "None"

\* the global navigation bindings of App::handle_events
Hotkey(imode, mode, key) ==
    IF imode = "Normal"
    THEN CASE key = "q" -> "Settings"
           [] key = "h" -> "Login"
           [] key = "m" -> "Help"
           [] OTHER -> mode
    ELSE CASE key = "q" -> "Settings"
           [] key = "h" -> "Home"
           [] OTHER -> mode

\* the keys that have a global binding
HotKeys == {"q", "h", "m"}

FallsBackAlways(handled) == TRUE

\* whether App::handle_events falls back to the global bindings
FallsBack(handled) == handled = "None" \/ handled = "False"

ModeAfterKey(imode, mode, handled, key) ==
    IF FallsBack(handled) THEN Hotkey(imode, mode, key) ELSE mode

RECURSIVE handle_actions_ignoring(_, _, _, _)
handle_actions_ignoring(mode, q, taken, tx) ==
    IF q = <<>>
    THEN [mode |-> mode, taken |-> taken, rest |-> q]
    ELSE handle_actions_ignoring(mode, Tail(q), Append(taken, Head(q)), tx)

\* App::handle_actions: the mode after the loop, the actions it took from
\* the channel and the actions it left there
RECURSIVE handle_actions(_, _, _, _)
handle_actions(mode, q, taken, tx) ==
    IF q = <<>>
    THEN [mode |-> mode, taken |-> taken, rest |-> q]
    ELSE LET action == Head(q)
         IN  CASE action.type = "ChangePage" ->
                    handle_actions(action.page, Tail(q), Append(taken, action), tx)
               [] action.type = "SubmitEmail" ->
                    IF tx = "None"
                    THEN [mode |-> "Settings", taken |-> Append(taken, action),
                          rest |-> Tail(q)]
                    ELSE handle_actions("Settings", Tail(q), Append(taken, action), tx)
               [] OTHER ->
                    handle_actions(mode, Tail(q), Append(taken, action), tx)

DrawTargetNoFallback(mode) == mode

\* what App::run draws for a mode
DrawTarget(mode) == IF mode \in Registered THEN mode ELSE "NotFound"

\* ev: the kind of the last call, the mode it started in, what the page
\* handler returned, the pages that were handed the key, whether the key is
\* one of the global bindings, and the actions run took from the channel
NoEvent == [kind |-> "init", from |-> "Login", handled |-> "None", to |-> {},
            hot |-> FALSE, taken |-> <<>>]

AppIdle ==
    /\ current_mode = "Login"
    /\ input_mode = "Normal"
    /\ app_tx = "None"
    /\ login_page = NewInput
    /\ text_input = NewInput
    /\ queue = <<>>
    /\ drawn = "nothing"
    /\ ev = NoEvent
    /\ seen_notfound = FALSE

\* App::handle_events(key_event)
HandleEvents(key) ==
    LET handled == PageHandled(current_mode, key)
        to == Receivers(current_mode)
        li == LoginHandle(login_page, key)
        ti == TextInputHandle(text_input, key)
    IN  /\ "Login" \in to => li.page.input <= MaxInput
        /\ "Settings" \in to => /\ ti.page.input <= MaxInput
                                /\ Len(queue) + Len(ti.sent) <= MaxQueue
        /\ login_page' = IF "Login" \in to THEN li.page ELSE login_page
        /\ text_input' = IF "Settings" \in to THEN ti.page ELSE text_input
        /\ queue' = IF "Settings" \in to THEN queue \o ti.sent ELSE queue
        /\ current_mode' = ModeAfterKey(input_mode, current_mode, handled, key)
        /\ ev' = [kind |-> "key", from |-> current_mode, handled |-> handled,
                  to |-> to, hot |-> (key \in HotKeys), taken |-> <<>>]
        /\ UNCHANGED <<input_mode, app_tx, drawn, seen_notfound>>
        /\ UNCHANGED notApp

\* App::handle_mouse(mouse_event) with a left press: only TextInput reacts
HandleMouse ==
    /\ text_input' = IF "Settings" \in Receivers(current_mode)
                     THEN [text_input EXCEPT !.input_mode = "Editing"]
                     ELSE text_input
    /\ ev' = [kind |-> "mouse", from |-> current_mode, handled |-> "None",
              to |-> Receivers(current_mode), hot |-> FALSE, taken |-> <<>>]
    /\ UNCHANGED <<current_mode, input_mode, app_tx, login_page, queue, drawn,
                   seen_notfound>>
    /\ UNCHANGED notApp

\* App::run(frame, rx, tx)
Run ==
    LET r == handle_actions(current_mode, queue, <<>>, app_tx)
    IN  /\ current_mode' = r.mode
        /\ queue' = r.rest
        /\ drawn' = DrawTarget(r.mode)
        /\ seen_notfound' = (seen_notfound \/ DrawTarget(r.mode) = "NotFound")
        /\ ev' = [kind |-> "run", from |-> current_mode, handled |-> "None",
                  to |-> {}, hot |-> FALSE, taken |-> r.taken]
        /\ UNCHANGED <<input_mode, app_tx, login_page, text_input>>
        /\ UNCHANGED notApp

KeyPress == \E key \in Keys : HandleEvents(key)

NextApp ==
    \/ KeyPress
    \/ HandleMouse
    \/ Run

\* C2: when App::run returns, none of the actions that were queued when it
\* started is still queued.  Nothing is sent during the call, so the channel
\* is empty after it.
C2_RunDrainsQueue == ev.kind = "run" => queue = <<>>

\* the mode that a sequence of processed actions leads to, when only
\* ChangePage changes it
RECURSIVE ModeByChangePage(_, _)
ModeByChangePage(mode, taken) ==
    IF taken = <<>> THEN mode
    ELSE ModeByChangePage(IF Head(taken).type = "ChangePage"
                          THEN Head(taken).page ELSE mode, Tail(taken))

\* the same, when SubmitEmail also changes it, to Settings
RECURSIVE ModeByAction(_, _)
ModeByAction(mode, taken) ==
    IF taken = <<>> THEN mode
    ELSE ModeByAction(CASE Head(taken).type = "ChangePage" -> Head(taken).page
                        [] Head(taken).type = "SubmitEmail" -> "Settings"
                        [] OTHER -> mode, Tail(taken))

\* a key step changes the mode only by a global binding
KeyStepChange ==
    ev'.kind = "key" =>
        \/ current_mode' = current_mode
        \/ ev'.hot /\ FallsBack(ev'.handled)

\* C3 as stated: current_mode starts as Login and changes only when
\* handle_actions processes ChangePage(p), becoming p, or when handle_events
\* applies a global navigation hotkey.
C3_ModeChangesOnlyByChangePage ==
    /\ current_mode = "Login"
    /\ [][/\ ev'.kind = "run" =>
                current_mode' = ModeByChangePage(current_mode, ev'.taken)
          /\ KeyStepChange
          /\ ev'.kind \notin {"run", "key"} => current_mode' = current_mode]_vars

\* C3 amended: current_mode starts as Login and changes only when
\* handle_actions processes ChangePage(p), becoming p, or SubmitEmail,
\* becoming Settings, or when handle_events applies a global navigation hotkey.
C3_ModeChanges ==
    /\ current_mode = "Login"
    /\ [][/\ ev'.kind = "run" =>
                current_mode' = ModeByAction(current_mode, ev'.taken)
          /\ KeyStepChange
          /\ ev'.kind \notin {"run", "key"} => current_mode' = current_mode]_vars

\* a run that started in another mode, processed SubmitEmail last and left
\* the mode Settings
C3_Witness ==
    /\ ev.kind = "run"
    /\ ev.taken # <<>>
    /\ ev.taken[Len(ev.taken)].type = "SubmitEmail"
    /\ ev.from # "Settings"
    /\ current_mode = "Settings"

\* C4: when the current mode has no registered page, App::run draws the
\* NotFound view, and when it has one (also after NotFound was drawn
\* earlier) App::run draws that page.
C4_NotFoundThenPage ==
    ev.kind = "run" =>
        /\ current_mode \notin {"Login", "Settings", "Help"} => drawn = "NotFound"
        /\ current_mode \in {"Login", "Settings", "Help"} => drawn = current_mode

\* a run that draws a registered page after an earlier run drew NotFound
C4_Witness ==
    /\ seen_notfound
    /\ ev.kind = "run"
    /\ drawn = current_mode
    /\ drawn \in {"Login", "Settings", "Help"}

\* C5: App::handle_events hands the key only to the page of the current
\* mode (no other page changes), the mode changes only if the handler
\* returned None or Some(false), and Some(true) leaves the mode unchanged.
C5_KeyOnlyToCurrentPage ==
    [][ev'.kind = "key" =>
        /\ ev'.to \subseteq {current_mode}
        /\ current_mode # "Login" => login_page' = login_page
        /\ current_mode # "Settings" => text_input' = text_input /\ queue' = queue
        /\ current_mode' # current_mode => ev'.handled \in {"None", "False"}
        /\ ev'.handled = "True" => current_mode' = current_mode]_vars

\* a global hotkey was pressed, the page returned Some(true) and the mode
\* is still the one the key was pressed in
C5_Witness ==
    /\ ev.kind = "key"
    /\ ev.hot
    /\ ev.handled = "True"
    /\ ev.to = {"Settings"}
    /\ current_mode = ev.from

\* C33: Enter in TextInput's Editing mode, with the field holding the text s,
\* sends SubmitEmail carrying s.  In Editing mode only Enter sends an action.
C33_SubmitCarriesInput ==
    [][(/\ ev'.kind = "key"
        /\ current_mode = "Settings"
        /\ text_input.input_mode = "Editing"
        /\ Len(queue') = Len(queue) + 1) =>
           queue'[Len(queue')] = SubmitEmail(text_input.input)]_vars

\* C34: after any sequence of editing operations on TextInput the cursor is
\* within the text: 0 <= character_index <= input.chars().count().
C34_CursorWithinInput ==
    /\ 0 <= text_input.character_index
    /\ text_input.character_index <= text_input.input

\* an editing key was handled by TextInput, the field is not empty and the
\* cursor stands at its end
C34_Witness ==
    /\ ev.kind = "key"
    /\ ev.to = {"Settings"}
    /\ ev.handled = "True"
    /\ text_input.input_mode = "Editing"
    /\ text_input.input > 0
    /\ text_input.character_index = text_input.input


(***************************************************************************)
(* The login form (pages/login.rs) and its request tasks.                  *)
(*                                                                         *)
(* The email field holds one of the representative texts EmailValues and   *)
(* the password field one of the lengths PasswordValues; a character key   *)
(* moves a field to the next of its values and Backspace to the previous.  *)
(***************************************************************************)
MaxChan == 1
MaxTasks == 1
MaxMenu == 5

\* #[validate(length(min = 3))]
MinPasswordLen == 3

\* Items::ALL
Items == <<"Email", "Password", "Submit", "Switch", "Local">>

EmailValues == <<"", "user@example.com">>

PasswordValues == <<0, 2, 3>>

\* #[validate(email)]
IsEmail(e) == e = "user@example.com"

\* Auth::validate
Validates(email, password) == IsEmail(email) /\ password >= MinPasswordLen

Act(t) == [type |-> t, title |-> "", body |-> "", mode |-> ""]

Toast(title, body) == [type |-> "Toast", title |-> title, body |-> body, mode |-> ""]

ChangeMode(m) == [type |-> "ChangeMode", title |-> "", body |-> "", mode |-> m]

Outcomes == {"auth_true", "auth_false", "auth_absent", "undecodable", "transport_error"}

\* tokio::spawn(async move { ... }): a task that has not run yet
NewTask(kind) == [kind |-> kind, pc |-> "spawned", sent |-> <<>>]

\* the page a successful request changes to
SuccessMode(kind) == IF kind = "login" THEN "Home" ELSE "Signup"

\* a task that reports a success without LoggedIn
TaskResultNoLoggedIn(kind, outcome) ==
    IF outcome = "auth_true"
    THEN [sent |-> <<Act("EnterNormal"), ChangeMode(SuccessMode(kind))>>, panics |-> FALSE]
    ELSE [sent |-> <<Toast("Validation Error", "message"), Act("EnterNormal")>>,
          panics |-> FALSE]

\* what the task sends once its HTTP call has ended with the outcome, and
\* whether it panics (res.json().await.unwrap())
TaskResult(kind, outcome) ==
    CASE outcome = "transport_error" ->
            [sent |-> <<Toast("Validation Error", "error"), Act("EnterNormal")>>,
             panics |-> FALSE]
      [] outcome = "undecodable" ->
            [sent |-> <<>>, panics |-> TRUE]
      [] outcome = "auth_true" ->
            [sent |-> <<Act("EnterNormal"), Act("LoggedIn"), ChangeMode(SuccessMode(kind))>>,
             panics |-> FALSE]
      [] OTHER ->
            [sent |-> <<Toast("Validation Error", "message"), Act("EnterNormal")>>,
             panics |-> FALSE]

\* a request that skips the validation
RequestUnvalidated(l, kind) == [sent |-> <<>>, spawned |-> <<NewTask(kind)>>]

\* Login::login and Login::register up to tokio::spawn: the actions sent and
\* the task spawned
Request(l, kind) ==
    IF Validates(EmailValues[l.email], PasswordValues[l.password])
    THEN [sent |-> <<>>, spawned |-> <<NewTask(kind)>>]
    ELSE [sent |-> <<Toast("Validation Error",
                           IF kind = "login" THEN "Not a valid email."
                           ELSE "Failed to validate email."),
                     Act("EnterNormal")>>,
          spawned |-> <<>>]

NoRequest == [sent |-> <<>>, spawned |-> <<>>]

\* Login::update: the form after the call, the action returned, the actions
\* sent and the task spawned
LoginUpdate(l, action) ==
    LET same == [lg |-> l, follow |-> <<>>, req |-> NoRequest]
    IN  CASE action.type = "Forward" ->
                [same EXCEPT !.lg = IF l.mode = "Normal"
                                    THEN [l EXCEPT !.menu_index = (l.menu_index + 1) % Len(Items)]
                                    ELSE l]
          [] action.type = "Back" ->
                [same EXCEPT !.lg = IF l.mode = "Normal"
                                    THEN [l EXCEPT !.menu_index =
                                            IF l.menu_index = 0 THEN Len(Items) - 1
                                            ELSE (l.menu_index - 1) % Len(Items)]
                                    ELSE l]
          [] action.type = "EnterProcessing" ->
                [same EXCEPT !.lg = [l EXCEPT !.mode = "Processing"]]
          [] action.type = "Login" -> [same EXCEPT !.req = Request(l, "login")]
          [] action.type = "Register" -> [same EXCEPT !.req = Request(l, "register")]
          [] action.type = "Home" ->
                [same EXCEPT !.lg = [l EXCEPT !.mode = "Normal"],
                             !.follow = <<ChangeMode("Home")>>]
          [] action.type = "EnterNormal" ->
                [same EXCEPT !.lg = [l EXCEPT !.mode = "Normal"]]
          [] action.type = "SelectItem" ->
                IF l.menu_index >= Len(Items)
                THEN [same EXCEPT !.lg = [l EXCEPT !.crashed = TRUE]]
                ELSE CASE Items[l.menu_index + 1] = "Email" ->
                            [same EXCEPT !.lg = [l EXCEPT !.mode = "InsertUser"]]
                       [] Items[l.menu_index + 1] = "Password" ->
                            [same EXCEPT !.lg = [l EXCEPT !.mode = "InsertPass"]]
                       [] Items[l.menu_index + 1] = "Switch" ->
                            [same EXCEPT !.follow = <<Act("Register")>>]
                       [] Items[l.menu_index + 1] = "Submit" ->
                            [same EXCEPT !.follow = <<Act("Login")>>]
                       [] OTHER ->
                            [same EXCEPT !.follow = <<Act("Home")>>]
          [] OTHER -> same

LoginKeys == {"Enter", "Tab", "BackTab", "Esc", "Char", "Backspace"}

\* Input::handle_event on a field that holds values[i]: a character, or
\* Backspace
EditField(values, i, key) ==
    CASE key = "Char" -> IF i < Len(values) THEN i + 1 ELSE i
      [] key = "Backspace" -> IF i > 1 THEN i - 1 ELSE i
      [] OTHER -> i

\* Login::handle_key_events: the form after the call, the actions sent on
\* the channel and the action returned.  menu_index -= 1 at 0 overflows: the
\* debug build panics there, the release build at the next Items::ALL[menu_index].
LoginHandleKey(l, key) ==
    LET none == [lg |-> l, sent |-> <<>>, ret |-> <<>>]
    IN  CASE l.mode = "Normal" ->
                IF key = "Enter" THEN [none EXCEPT !.ret = <<Act("SelectItem")>>] ELSE none
          [] l.mode = "InsertPass" ->
                CASE key = "Esc" -> [none EXCEPT !.ret = <<Act("EnterNormal")>>]
                  [] key \in {"Enter", "Tab"} ->
                        [lg |-> [l EXCEPT !.menu_index = l.menu_index + 1],
                         sent |-> <<Act("CompleteInput")>>,
                         ret |-> <<Act("EnterNormal")>>]
                  [] key = "BackTab" ->
                        [lg |-> IF l.menu_index = 0
                                THEN [l EXCEPT !.crashed = TRUE]
                                ELSE [l EXCEPT !.menu_index = l.menu_index - 1,
                                               !.mode = "InsertUser"],
                         sent |-> <<Act("CompleteInput")>>,
                         ret |-> <<>>]
                  [] OTHER ->
                        [none EXCEPT !.lg = [l EXCEPT !.password = EditField(PasswordValues, l.password, key)]]
          [] l.mode = "InsertUser" ->
                CASE key = "Esc" -> [none EXCEPT !.ret = <<Act("EnterNormal")>>]
                  [] key \in {"Enter", "Tab"} ->
                        [lg |-> [l EXCEPT !.mode = "InsertPass",
                                          !.menu_index = l.menu_index + 1],
                         sent |-> <<Act("CompleteInput")>>,
                         ret |-> <<>>]
                  [] key = "BackTab" ->
                        [lg |-> [l EXCEPT !.menu_index = l.menu_index + 1],
                         sent |-> <<Act("CompleteInput")>>,
                         ret |-> <<Act("EnterNormal")>>]
                  [] OTHER ->
                        [none EXCEPT !.lg = [l EXCEPT !.email = EditField(EmailValues, l.email, key)]]
          [] OTHER -> none

\* Login::new, after register_action_handler
NewLogin == [menu_index |-> 0, mode |-> "InsertUser", email |-> 1, password |-> 1,
             crashed |-> FALSE]

\* the steps that are not the end of a task
Step(kind) == [kind |-> kind]

LoginIdle ==
    /\ lg = NewLogin
    /\ chan = <<>>
    /\ tasks = <<>>
    /\ lev = Step("init")

(***************************************************************************)
(* The event loop that owns the form lives outside pages/login.rs.         *)
(* It is modelled as the specification describes it: a key event goes to   *)
(* handle_key_events and the action returned is sent on the channel; the   *)
(* channel is drained oldest first into update, and an action update       *)
(* returns is sent on the channel.  An event or a task's send is taken     *)
(* while fewer than MaxChan actions wait in the channel.                   *)
(***************************************************************************)

\* a key event: Login::handle_key_events
LoginKey(key) ==
    LET r == LoginHandleKey(lg, key)
    IN  /\ ~lg.crashed
        /\ Len(chan) < MaxChan
        /\ r.lg.menu_index <= MaxMenu
        /\ lg' = r.lg
        /\ chan' = chan \o r.sent \o r.ret
        /\ lev' = Step("key")
        /\ UNCHANGED tasks
        /\ UNCHANGED notLogin

\* the key bindings of Mode::Login (Tab, BackTab) and Mode::Global (j, k)
BoundKey(action) ==
    /\ ~lg.crashed
    /\ Len(chan) < MaxChan
    /\ chan' = Append(chan, action)
    /\ lev' = Step("binding")
    /\ UNCHANGED <<lg, tasks>>
    /\ UNCHANGED notLogin

\* the oldest action of the channel goes to Login::update
Dispatch ==
    /\ ~lg.crashed
    /\ chan # <<>>
    /\ LET action == Head(chan)
           r == LoginUpdate(lg, action)
       IN  /\ Len(tasks) + Len(r.req.spawned) <= MaxTasks
           /\ lg' = r.lg
           /\ chan' = Tail(chan) \o r.req.sent \o r.follow
           /\ tasks' = tasks \o r.req.spawned
           /\ lev' = Step("update")
    /\ UNCHANGED notLogin

\* the first poll of a spawned task: it sends EnterProcessing and awaits the
\* HTTP call
TaskStart(i) ==
    /\ ~lg.crashed
    /\ tasks[i].pc = "spawned"
    /\ Len(chan) < MaxChan
    /\ chan' = Append(chan, Act("EnterProcessing"))
    /\ tasks' = [tasks EXCEPT ![i] = [@ EXCEPT !.pc = "awaiting",
                                               !.sent = <<Act("EnterProcessing")>>]]
    /\ lev' = Step("task")
    /\ UNCHANGED lg
    /\ UNCHANGED notLogin

Without(seq, i) == SubSeq(seq, 1, i - 1) \o SubSeq(seq, i + 1, Len(seq))

\* the HTTP call of a task ends with an outcome and the task, which has
\* nothing more to wait for, runs to its end
TaskFinish(i, outcome) ==
    LET r == TaskResult(tasks[i].kind, outcome)
    IN  /\ ~lg.crashed
        /\ tasks[i].pc = "awaiting"
        /\ Len(chan) < MaxChan
        /\ chan' = chan \o r.sent
        /\ tasks' = Without(tasks, i)
        /\ lev' = [kind |-> "ended", task |-> tasks[i].kind, outcome |-> outcome,
                   panicked |-> r.panics, sent |-> tasks[i].sent \o r.sent]
        /\ UNCHANGED lg
        /\ UNCHANGED notLogin

\* Login::draw indexes Items::ALL[menu_index]
LoginDraw ==
    /\ ~lg.crashed
    /\ lg' = IF lg.menu_index >= Len(Items) THEN [lg EXCEPT !.crashed = TRUE] ELSE lg
    /\ lev' = Step("draw")
    /\ UNCHANGED <<chan, tasks>>
    /\ UNCHANGED notLogin

LoginKeyPress == \E key \in LoginKeys : LoginKey(key)

LoginBinding == \E t \in {"Forward", "Back"} : BoundKey(Act(t))

TaskStep ==
    \E i \in 1..Len(tasks) :
        \/ TaskStart(i)
        \/ \E outcome \in Outcomes : TaskFinish(i, outcome)

NextLogin ==
    \/ LoginKeyPress
    \/ LoginBinding
    \/ Dispatch
    \/ TaskStep
    \/ LoginDraw

\* the form fails the local validation
FormInvalid == ~Validates(EmailValues[lg.email], PasswordValues[lg.password])

\* the step hands an action of this type to Login::update
Updates(type) == lev'.kind = "update" /\ chan # <<>> /\ Head(chan).type = type

\* C6: when Action::Login is processed while the form fails the local
\* validation, no task is spawned and a Toast with title "Validation Error"
\* followed by EnterNormal is enqueued; processing the Toast leaves the form
\* alone and processing EnterNormal leaves Login.mode Normal.
C6_InvalidLoginToast ==
    [][/\ (Updates("Login") /\ FormInvalid) =>
            /\ tasks' = tasks
            /\ Len(chan') = Len(chan) + 1
            /\ chan'[Len(chan') - 1].type = "Toast"
            /\ chan'[Len(chan') - 1].title = "Validation Error"
            /\ chan'[Len(chan')] = Act("EnterNormal")
       /\ Updates("Toast") => lg' = lg
       /\ Updates("EnterNormal") => lg'.mode = "Normal"]_vars

\* Action::Login was just processed on an invalid form: no task, and the
\* channel ends with the Toast and EnterNormal
C6_Witness ==
    /\ lev.kind = "update"
    /\ FormInvalid
    /\ tasks = <<>>
    /\ Len(chan) >= 2
    /\ chan[Len(chan) - 1] = Toast("Validation Error", "Not a valid email.")
    /\ chan[Len(chan)] = Act("EnterNormal")

\* C7: a login or registration task whose request does not succeed
\* (transport error, authenticated false or absent, undecodable body) sends a
\* Toast, sends neither LoggedIn nor ChangeMode, and does not panic.
C7_FailureBecomesToast ==
    (lev.kind = "ended" /\ lev.outcome # "auth_true") =>
        /\ ~lev.panicked
        /\ \E k \in 1..Len(lev.sent) : lev.sent[k].type = "Toast"
        /\ \A k \in 1..Len(lev.sent) : lev.sent[k].type \notin {"LoggedIn", "ChangeMode"}

\* C8: a task whose request is answered with authenticated = true sends
\* exactly EnterProcessing, EnterNormal, LoggedIn and ChangeMode(Home), or
\* ChangeMode(Signup) for a registration, in that order, and no Toast.
C8_SuccessSequence ==
    (lev.kind = "ended" /\ lev.outcome = "auth_true") =>
        /\ ~lev.panicked
        /\ lev.sent = <<Act("EnterProcessing"), Act("EnterNormal"), Act("LoggedIn"),
                        IF lev.task = "login" THEN ChangeMode("Home")
                        ELSE ChangeMode("Signup")>>

\* a registration task has ended after authenticated = true
C8_Witness ==
    /\ lev.kind = "ended"
    /\ lev.outcome = "auth_true"
    /\ lev.task = "register"
    /\ Len(chan) >= 3
    /\ chan[Len(chan)] = ChangeMode("Signup")


(***************************************************************************)
(* The toast component (pages/components/toast.rs).                        *)
(*                                                                         *)
(* A Modal is [title, duration, steps]: duration in whole seconds, and     *)
(* steps the number of times render_tick has decremented it, which the     *)
(* program does not store.  The clock advances in ticks, TicksPerSecond of *)
(* them to a second; elapsed is now - render_start_time.                   *)
(***************************************************************************)
MaxToasts == 3
MaxFrames == 3
MaxElapsed == 3
TicksPerSecond == 2

\* Duration::from_secs(5)
ToastSeconds == 5

ToastTitles == {"Validation Error", "Error"}

Modal(title) == [title |-> title, duration |-> ToastSeconds, steps |-> 0]

\* toast.duration.checked_sub(Duration::from_secs(1))
Decrement(m) ==
    IF m.duration >= 1
    THEN [m EXCEPT !.duration = m.duration - 1, !.steps = m.steps + 1]
    ELSE m

\* a countdown gated by the number of frames
render_tick_by_frames(ts, el, frames) ==
    IF frames + 1 >= 2
    THEN LET dec == IF ts # <<>> THEN [ts EXCEPT ![1] = Decrement(@)] ELSE ts
             gone == dec # <<>> /\ dec[1].duration = 0
         IN  [toasts |-> IF gone THEN Tail(dec) ELSE dec,
              elapsed |-> 0, render_frames |-> 0,
              removed |-> IF gone THEN <<dec[1]>> ELSE <<>>]
    ELSE [toasts |-> ts, elapsed |-> el, render_frames |-> frames + 1,
          removed |-> <<>>]

\* a countdown that removes the front toast one second early
render_tick_early(ts, el, frames) ==
    IF el >= TicksPerSecond
    THEN LET dec == IF ts # <<>> THEN [ts EXCEPT ![1] = Decrement(@)] ELSE ts
             gone == dec # <<>> /\ dec[1].duration <= 1
         IN  [toasts |-> IF gone THEN Tail(dec) ELSE dec,
              elapsed |-> 0, render_frames |-> 0,
              removed |-> IF gone THEN <<dec[1]>> ELSE <<>>]
    ELSE [toasts |-> ts, elapsed |-> el, render_frames |-> frames + 1,
          removed |-> <<>>]

\* Toast::render_tick: the list, the time since render_start_time and the
\* frame count after the call, and the Modal it removed
render_tick(ts, el, frames) ==
    IF el >= TicksPerSecond
    THEN LET dec == IF ts # <<>> THEN [ts EXCEPT ![1] = Decrement(@)] ELSE ts
             gone == dec # <<>> /\ dec[1].duration = 0
         IN  [toasts |-> IF gone THEN Tail(dec) ELSE dec,
              elapsed |-> 0, render_frames |-> 0,
              removed |-> IF gone THEN <<dec[1]>> ELSE <<>>]
    ELSE [toasts |-> ts, elapsed |-> el, render_frames |-> frames + 1,
          removed |-> <<>>]

ToastStep(kind) == [kind |-> kind, removed |-> <<>>]

\* Toast::new
ToastIdle ==
    /\ toasts = <<Modal("Toast")>>
    /\ elapsed = 0
    /\ render_frames = 0
    /\ tev = ToastStep("init")

\* the clock advances by one tick
ClockTick ==
    /\ elapsed < MaxElapsed
    /\ elapsed' = elapsed + 1
    /\ tev' = ToastStep("clock")
    /\ UNCHANGED <<toasts, render_frames>>
    /\ UNCHANGED notToast

\* Toast::update(Action::Render)
UpdateRender ==
    LET r == render_tick(toasts, elapsed, render_frames)
    IN  /\ r.render_frames <= MaxFrames
        /\ toasts' = r.toasts
        /\ elapsed' = r.elapsed
        /\ render_frames' = r.render_frames
        /\ tev' = [kind |-> "Render", removed |-> r.removed]
        /\ UNCHANGED notToast

\* Toast::update(Action::Toast(title, body))
UpdateToast(title) ==
    /\ Len(toasts) < MaxToasts
    /\ toasts' = Append(toasts, Modal(title))
    /\ tev' = ToastStep("Toast")
    /\ UNCHANGED <<elapsed, render_frames>>
    /\ UNCHANGED notToast

\* Toast::update(Action::CloseToast): Vec::pop
UpdateCloseToast ==
    /\ toasts' = IF toasts = <<>> THEN toasts ELSE SubSeq(toasts, 1, Len(toasts) - 1)
    /\ tev' = ToastStep("CloseToast")
    /\ UNCHANGED <<elapsed, render_frames>>
    /\ UNCHANGED notToast

UpdatePush == \E title \in ToastTitles : UpdateToast(title)

NextToast ==
    \/ ClockTick
    \/ UpdateRender
    \/ UpdatePush
    \/ UpdateCloseToast

\* C9: a toast created with duration 5 s is removed after exactly 5
\* decrements of one second each: every toast in the list has fewer than 5
\* decrements and 5 s less one second for each of them, it is in the list
\* after its 4th decrement, and render_tick removes it at its 5th.
C9_RemovedAtFifthDecrement ==
    [][/\ \A k \in 1..Len(toasts') :
            /\ toasts'[k].steps <= 4
            /\ toasts'[k].duration = 5 - toasts'[k].steps
       /\ (tev'.kind = "Render" /\ elapsed >= TicksPerSecond /\ toasts # <<>>) =>
            IF toasts[1].steps = 4
            THEN /\ toasts' = Tail(toasts)
                 /\ tev'.removed = <<[toasts[1] EXCEPT !.duration = 0, !.steps = 5]>>
            ELSE /\ toasts' = [toasts EXCEPT ![1].steps = @ + 1, ![1].duration = @ - 1]
                 /\ tev'.removed = <<>>
       /\ tev'.kind = "Render" => Len(tev'.removed) = Len(toasts) - Len(toasts')]_vars

\* render_tick has just removed a toast at its fifth decrement
C9_Witness ==
    /\ tev.kind = "Render"
    /\ tev.removed # <<>>
    /\ tev.removed[1].steps = 5
    /\ tev.removed[1].duration = 0

\* C10: a Render processed less than one second after the previous countdown
\* step leaves every toast's duration and the toast list unchanged, and does
\* not restart the second.
C10_WallClockGated ==
    [][(tev'.kind = "Render" /\ elapsed < TicksPerSecond) =>
            /\ toasts' = toasts
            /\ elapsed' = elapsed]_vars

\* several Renders within the same second, after the front toast had
\* already been counted down once
C10_Witness ==
    /\ tev.kind = "Render"
    /\ render_frames >= 2
    /\ elapsed >= 1
    /\ elapsed < TicksPerSecond
    /\ toasts # <<>>
    /\ toasts[1].steps = 1

(***************************************************************************)
(* StatefulList (pages/mod.rs).  A selection is None or Some(i); a list is *)
(* modelled by its length.                                                 *)
(***************************************************************************)
None == <<>>

Some(i) == <<i>>

\* the value of 0usize - 1 where the build wraps: it stands for usize::MAX
UsizeMax == 2147483647

\* the selection is the wrapped value; nothing is decremented further from it
Wrapped(selected) == selected = Some(UsizeMax)

\* a next that stops at the last item
list_next_clamped(len, selected) ==
    IF selected = None THEN [selected |-> Some(0), panics |-> FALSE]
    ELSE IF len = 0 THEN [selected |-> selected, panics |-> TRUE]
    ELSE IF selected = Some(UsizeMax) THEN [selected |-> Some(0), panics |-> FALSE]
    ELSE [selected |-> Some(IF selected[1] + 1 < len THEN selected[1] + 1 ELSE selected[1]),
          panics |-> FALSE]

\* a previous that stops at the first item
list_previous_saturating(len, selected, overflow_checks) ==
    IF selected = None THEN [selected |-> Some(0), panics |-> FALSE]
    ELSE [selected |-> Some(SatSub(selected[1], 1)), panics |-> FALSE]

\* StatefulList::next: (i + 1) % items.len() panics on an empty list; the
\* wrapped value is met only where i + 1 wraps as well, to 0
list_next(len, selected) ==
    IF selected = None THEN [selected |-> Some(0), panics |-> FALSE]
    ELSE IF len = 0 THEN [selected |-> selected, panics |-> TRUE]
    ELSE IF Wrapped(selected) THEN [selected |-> Some(0), panics |-> FALSE]
    ELSE [selected |-> Some((selected[1] + 1) % len), panics |-> FALSE]

\* StatefulList::previous: items.len() - 1 overflows on an empty list, where
\* a build with overflow checks panics and one without wraps
list_previous(len, selected, overflow_checks) ==
    IF selected = None THEN [selected |-> Some(0), panics |-> FALSE]
    ELSE IF selected[1] # 0 THEN [selected |-> Some(selected[1] - 1), panics |-> FALSE]
    ELSE IF len # 0 THEN [selected |-> Some(len - 1), panics |-> FALSE]
    ELSE IF overflow_checks THEN [selected |-> selected, panics |-> TRUE]
    ELSE [selected |-> Some(UsizeMax), panics |-> FALSE]

(***************************************************************************)
(* The file browser (pages/filebrowser.rs) with its children, the content  *)
(* pane (pages/components/filestats.rs) and the file picker                *)
(* (pages/components/filepicker.rs).  A directory listing is the sequence  *)
(* of the is_dir flags of its entries; an area is its height, None until   *)
(* register_layout_handler has run.                                        *)
(***************************************************************************)
MaxHeight == 2
MaxLines == 2

Listings == {<<>>, <<TRUE, FALSE>>}

\* std::fs::read_to_string: a failure, or a text of so many lines
FileReads == {[ok |-> FALSE, lines |-> 0]} \cup {[ok |-> TRUE, lines |-> l] : l \in 0..MaxLines}

\* Filestats::new
NewFilestats(state) == [state |-> state, scrollable |-> FALSE, action_tx |-> FALSE]

\* Filepicker::new(false, None).  The show flag is left out: only a popup
\* picker reads it.
NewFilepicker(listing) ==
    [hidden |-> FALSE, files |-> listing, selected |-> None, action_tx |-> FALSE]

\* Filebrowser::new
NewFilebrowser(listing) ==
    [sidebar |-> TRUE, mode |-> "Select", action_tx |-> FALSE, area |-> None,
     content |-> NewFilestats(ScrollStateOf(0, 1)),
     picker |-> NewFilepicker(listing), crashed |-> FALSE]

\* Filepicker::load_files
load_files(p, listing) == [p EXCEPT !.files = listing, !.selected = Some(0)]

\* Filepicker::load_selected
load_selected(p, listing) ==
    LET index == IF p.selected = None THEN 0 ELSE p.selected[1]
        is_dir == index < Len(p.files) /\ p.files[index + 1]
    IN  IF ~p.action_tx
        THEN [picker |-> p, sent |-> <<>>, panics |-> TRUE]
        ELSE IF is_dir
             THEN [picker |-> load_files(p, listing), sent |-> <<>>, panics |-> FALSE]
             ELSE [picker |-> p,
                   sent |-> <<Toast("Error", "Selected item is not a directory")>>,
                   panics |-> FALSE]

\* Filepicker::handle_key_events: the picker after the call, the actions
\* sent on the channel and the action returned
PickerHandleKey(p, key, listing) ==
    CASE key = "." ->
            [picker |-> load_files([p EXCEPT !.hidden = ~p.hidden], listing),
             sent |-> <<>>, ret |-> <<Act("Update")>>, panics |-> FALSE]
      [] key = "Esc" ->
            [picker |-> p,
             sent |-> <<>>, ret |-> <<Act("Update")>>, panics |-> FALSE]
      [] key = "Enter" ->
            LET r == load_selected(p, listing)
            IN  [picker |-> r.picker, sent |-> r.sent,
                 ret |-> IF r.panics THEN <<>> ELSE <<Act("Update")>>,
                 panics |-> r.panics]
      [] OTHER -> [picker |-> p, sent |-> <<>>, ret |-> <<>>, panics |-> FALSE]

BrowserKeys == {"Esc", "Backspace", "Tab", "Enter", ".", "x"}

\* the key bindings of Mode::Filebrowser
BrowserKeymap(key) ==
    CASE key = "Tab" -> <<Act("ToggleSidebar")>>
      [] key = "Enter" -> <<Act("SelectOption")>>
      [] OTHER -> <<>>

\* Filebrowser::handle_key_events: the page after the call, the actions sent
\* on the channel and the action returned
BrowserHandleKey(b, key, listing) ==
    LET r == IF b.sidebar THEN PickerHandleKey(b.picker, key, listing)
             ELSE [picker |-> b.picker, sent |-> <<>>, ret |-> <<>>, panics |-> FALSE]
    IN  [fb |-> [b EXCEPT !.picker = r.picker, !.crashed = r.panics],
         sent |-> r.sent,
         ret |-> CASE r.panics -> <<>>
                   [] b.mode = "Select" /\ key \in {"Esc", "Backspace"} ->
                        <<Act("ToggleSidebar")>>
                   [] b.mode = "Select" -> BrowserKeymap(key)
                   [] OTHER -> <<>>]

\* Filestats::update
FilestatsUpdate(c, action) ==
    CASE action.type = "ToggleSidebar" -> [c EXCEPT !.scrollable = ~c.scrollable]
      [] action.type = "Forward" ->
            IF c.scrollable THEN [c EXCEPT !.state = scroll_down(c.state)] ELSE c
      [] action.type = "Back" ->
            IF c.scrollable THEN [c EXCEPT !.state = scroll_up(c.state)] ELSE c
      [] OTHER -> c

\* Filepicker::update
PickerUpdate(p, action, overflow_checks) ==
    CASE action.type = "Forward" ->
            LET r == list_next(Len(p.files), p.selected)
            IN  [picker |-> [p EXCEPT !.selected = r.selected], panics |-> r.panics]
      [] action.type = "Back" ->
            LET r == list_previous(Len(p.files), p.selected, overflow_checks)
            IN  [picker |-> [p EXCEPT !.selected = r.selected], panics |-> r.panics]
      [] OTHER -> [picker |-> p, panics |-> FALSE]

\* a view size that takes the whole area
ViewSizeWhole(lines, height) == IF lines < height THEN 0 ELSE height

\* the view size Filebrowser::update computes for a text of so many lines
\* in an area of that height
ViewSize(lines, height) ==
    IF lines < height THEN 0 ELSE (height \div 2) - (height \div 3)

Height(area) == IF area = None THEN 0 ELSE area[1]

NoComputed == [lines |-> 0, height |-> 0, view_size |-> 0, replaced |-> FALSE,
               underflow |-> FALSE]

\* Filebrowser::update(Action::SelectOption) once the children have seen it
select_option(b, read) ==
    LET sel == b.picker.selected
        is_file == sel # None /\ sel[1] < Len(b.picker.files) /\ ~b.picker.files[sel[1] + 1]
        view_size == ViewSize(read.lines, Height(b.area))
    IN  IF is_file /\ read.ok
        THEN [fb |-> [b EXCEPT !.content =
                        NewFilestats(ScrollStateOf(SatSub(read.lines, view_size), 1)),
                      !.crashed = view_size > read.lines],
              computed |-> [lines |-> read.lines, height |-> Height(b.area),
                            view_size |-> view_size, replaced |-> TRUE,
                            underflow |-> view_size > read.lines]]
        ELSE [fb |-> b, computed |-> NoComputed]

\* Filebrowser::update
BrowserUpdate(b, action, read, overflow_checks) ==
    LET p == PickerUpdate(b.picker, action, overflow_checks)
        seen == [b EXCEPT !.content = FilestatsUpdate(b.content, action),
                          !.picker = p.picker,
                          !.crashed = p.panics]
    IN  CASE p.panics -> [fb |-> seen, computed |-> NoComputed]
          [] action.type = "ToggleSidebar" ->
                [fb |-> [seen EXCEPT !.sidebar = ~b.sidebar,
                                     !.mode = IF b.mode = "Select" THEN "Normal"
                                              ELSE "Select"],
                 computed |-> NoComputed]
          [] action.type = "SelectOption" -> select_option(seen, read)
          [] OTHER -> [fb |-> seen, computed |-> NoComputed]

\* a pane that is always drawn
DrawnPanesBoth(b) == {"picker", "content"}

\* Filebrowser::draw: the panes it draws
DrawnPanes(b) == IF b.sidebar THEN {"picker", "content"} ELSE {"content"}

\* Filestats::draw: render stores the height of the body area, the area less
\* its header line, in self.state.view_size
FilestatsDraw(c, area) == [c EXCEPT !.state.view_size = SatSub(Height(area), 1)]

\* Filebrowser::draw; Filepicker::draw indexes self.areas[0], which is
\* empty until register_layout_handler has run
BrowserDrawn(b) ==
    IF "picker" \in DrawnPanes(b) /\ b.area = None
    THEN [b EXCEPT !.crashed = TRUE]
    ELSE [b EXCEPT !.content = FilestatsDraw(b.content, b.area)]

BrowserEvent(kind, act) ==
    [kind |-> kind, act |-> act, ret |-> <<>>, sent |-> <<>>, drawn |-> {},
     computed |-> NoComputed]

BrowserIdle ==
    /\ fb = NewFilebrowser(<<TRUE, FALSE>>)
    /\ fbev = BrowserEvent("new", "")

\* Filebrowser::register_action_handler
BrowserRegister ==
    /\ ~fb.crashed
    /\ fb' = [fb EXCEPT !.content.action_tx = TRUE, !.picker.action_tx = TRUE,
                        !.action_tx = TRUE]
    /\ fbev' = BrowserEvent("register", "")
    /\ UNCHANGED notBrowser

\* Filebrowser::register_layout_handler
BrowserLayout(height) ==
    /\ ~fb.crashed
    /\ fb' = [fb EXCEPT !.area = Some(height)]
    /\ fbev' = BrowserEvent("layout", "")
    /\ UNCHANGED notBrowser

\* Filebrowser::handle_key_events
BrowserKey(key, listing) ==
    LET r == BrowserHandleKey(fb, key, listing)
    IN  /\ ~fb.crashed
        /\ fb' = r.fb
        /\ fbev' = [BrowserEvent("key", key) EXCEPT !.ret = r.ret, !.sent = r.sent]
        /\ UNCHANGED notBrowser

\* Filebrowser::update
BrowserAction(action, read, overflow_checks) ==
    LET r == BrowserUpdate(fb, action, read, overflow_checks)
    IN  /\ ~fb.crashed
        /\ r.fb.content.state.position <= MaxLines
        /\ Wrapped(fb.picker.selected) => r.fb.picker.selected = fb.picker.selected
        /\ fb' = r.fb
        /\ fbev' = [BrowserEvent("update", action.type) EXCEPT !.computed = r.computed]
        /\ UNCHANGED notBrowser

\* Filebrowser::draw
BrowserDraw ==
    /\ ~fb.crashed
    /\ fb' = BrowserDrawn(fb)
    /\ fbev' = [BrowserEvent("draw", "") EXCEPT
                    !.drawn = IF BrowserDrawn(fb).crashed THEN {} ELSE DrawnPanes(fb)]
    /\ UNCHANGED notBrowser

BrowserLayouts == \E height \in 0..MaxHeight : BrowserLayout(height)

BrowserKeyPress == \E key \in BrowserKeys, listing \in Listings : BrowserKey(key, listing)

\* the file is read for SelectOption alone, and the build matters for Back
\* alone
BrowserUpdates ==
    \/ \E read \in FileReads : BrowserAction(Act("SelectOption"), read, TRUE)
    \/ \E overflow_checks \in BOOLEAN :
            BrowserAction(Act("Back"), [ok |-> FALSE, lines |-> 0], overflow_checks)
    \/ \E t \in {"ToggleSidebar", "Forward"} :
            BrowserAction(Act(t), [ok |-> FALSE, lines |-> 0], TRUE)

NextBrowser ==
    \/ BrowserRegister
    \/ BrowserLayouts
    \/ BrowserKeyPress
    \/ BrowserUpdates
    \/ BrowserDraw

\* C11: in the Filebrowser with sidebar = true and mode = Select, the
\* toggle-sidebar keys (Esc, Backspace, and Tab through the key map) produce
\* ToggleSidebar; processing ToggleSidebar there sets sidebar = false and
\* mode = Normal; and a draw with sidebar = false draws the content pane but
\* not the file picker.
C11_ToggleSidebarHidesPicker ==
    [][/\ (/\ fbev'.kind = "key"
           /\ fbev'.act \in {"Esc", "Backspace", "Tab"}
           /\ fb.sidebar /\ fb.mode = "Select") =>
                fbev'.ret = <<Act("ToggleSidebar")>>
       /\ (/\ fbev'.kind = "update"
           /\ fbev'.act = "ToggleSidebar"
           /\ fb.sidebar /\ fb.mode = "Select") =>
                /\ fb'.sidebar = FALSE
                /\ fb'.mode = "Normal"
       /\ (fbev'.kind = "draw" /\ ~fb.sidebar) => fbev'.drawn = {"content"}]_vars

\* the sidebar has been toggled off, the mode is Normal and the last draw
\* drew the content pane alone
C11_Witness ==
    /\ fbev.kind = "draw"
    /\ ~fb.sidebar
    /\ fb.mode = "Normal"
    /\ fbev.drawn = {"content"}

(***************************************************************************)
(* SelectOption on a regular file, over a wider range of file lengths and  *)
(* area heights: the browser is registered and laid out, and the picker's  *)
(* selection is on the regular file of its listing.                        *)
(***************************************************************************)
MaxViewport == 12
MaxFileLines == 12

BrowserOnFile(height) ==
    [NewFilebrowser(<<TRUE, FALSE>>) EXCEPT
        !.action_tx = TRUE, !.content.action_tx = TRUE,
        !.picker.action_tx = TRUE, !.picker.selected = Some(1),
        !.area = Some(height)]

SelectFile ==
    \E lines \in 0..MaxFileLines :
        BrowserAction(Act("SelectOption"), [ok |-> TRUE, lines |-> lines], TRUE)

\* C12: on SelectOption for a regular file of L lines in an area of height
\* H, if L >= H the computed view size is H/2 - H/3 and the new ScrollState
\* has max = L - view_size; if H > L the view size is 0 and max = L; the
\* subtraction does not underflow.
C12_ViewSizeAndMax ==
    (fbev.kind = "update" /\ fbev.computed.replaced) =>
        LET L == fbev.computed.lines
            H == fbev.computed.height
        IN  /\ ~fbev.computed.underflow
            /\ ~fb.crashed
            /\ L >= H =>
                /\ fbev.computed.view_size = (H \div 2) - (H \div 3)
                /\ fb.content.state.max = L - ((H \div 2) - (H \div 3))
            /\ H > L =>
                /\ fbev.computed.view_size = 0
                /\ fb.content.state.max = L

\* a file longer than the area was opened with a view size of at least 2
C12_Witness ==
    /\ fbev.kind = "update"
    /\ fbev.computed.replaced
    /\ fbev.computed.lines > fbev.computed.height
    /\ fbev.computed.view_size >= 2
    /\ fb.content.state.max = fbev.computed.lines - fbev.computed.view_size

(***************************************************************************)
(* A StatefulList on its own, as Chat, Blog and Filepicker use it: built   *)
(* by with_items, grown by items.push, its selection set by                *)
(* state.select(Some(0)) and state.select(None) and moved by next and      *)
(* previous.  sl also records the last two calls (op, prev_op) and the     *)
(* selection before each of them (was, before).                            *)
(***************************************************************************)
MaxItems == 4

\* StatefulList::with_items
ListOf(len) == [len |-> len, selected |-> None, crashed |-> FALSE,
                op |-> "with_items", prev_op |-> "", was |-> None, before |-> None]

ListIdle == sl = ListOf(0)

ListStep(op, len, r) ==
    /\ ~sl.crashed
    /\ sl' = [len |-> len, selected |-> r.selected, crashed |-> r.panics,
              op |-> op, prev_op |-> sl.op, was |-> sl.selected, before |-> sl.was]
    /\ UNCHANGED notList

\* StatefulList::next
ListNext == ListStep("next", sl.len, list_next(sl.len, sl.selected))

\* StatefulList::previous
ListPrevious ==
    /\ ~Wrapped(sl.selected)
    /\ \E overflow_checks \in BOOLEAN :
            ListStep("previous", sl.len, list_previous(sl.len, sl.selected, overflow_checks))

\* state.select(Some(0)) (Blog::generate_posts, Filepicker::load_files) and
\* state.select(None) (Chat::update on EnterInput)
ListSelect ==
    \E selected \in {None, Some(0)} :
        ListStep("select", sl.len, [selected |-> selected, panics |-> FALSE])

\* items.push (Chat::add)
ListPush ==
    /\ sl.len < MaxItems
    /\ ListStep("push", sl.len + 1, [selected |-> sl.selected, panics |-> FALSE])

NextList ==
    \/ ListNext
    \/ ListPrevious
    \/ ListSelect
    \/ ListPush

\* C13: next and previous are total: from every list, the empty one
\* included, and every selection, the call returns normally and leaves the
\* selection None or an index smaller than items.len().
C13_NextPreviousTotal ==
    sl.op \in {"next", "previous"} =>
        /\ ~sl.crashed
        /\ sl.selected = None \/ sl.selected[1] < sl.len

\* C14: on a list of length N > 0 with a selected index i < N, next followed
\* by previous, and previous followed by next, return the selection to i.
C14_RoundTrip ==
    (/\ sl.len > 0
     /\ sl.before # None
     /\ sl.before[1] < sl.len
     /\ <<sl.prev_op, sl.op>> \in {<<"next", "previous">>, <<"previous", "next">>}) =>
        /\ ~sl.crashed
        /\ sl.selected = sl.before

\* next then previous from the last index of a list of three or more items,
\* through the wrap to 0 and back
C14_Witness ==
    /\ sl.len >= 3
    /\ sl.prev_op = "next"
    /\ sl.op = "previous"
    /\ sl.before = Some(sl.len - 1)
    /\ sl.was = Some(0)
    /\ sl.selected = Some(sl.len - 1)

\* C15: next and previous wrap circularly modulo items.len(): next from the
\* last index selects 0, previous from index 0 selects the last index, and
\* otherwise they move the selection by +1 and -1.
C15_WrapsCircularly ==
    (sl.len > 0 /\ sl.was # None /\ sl.was[1] < sl.len) =>
        /\ sl.op = "next" =>
                sl.selected = Some(IF sl.was[1] = sl.len - 1 THEN 0 ELSE sl.was[1] + 1)
        /\ sl.op = "previous" =>
                sl.selected = Some(IF sl.was[1] = 0 THEN sl.len - 1 ELSE sl.was[1] - 1)

\* previous from index 0 of a list of three or more items selected the last
C15_Witness ==
    /\ sl.len >= 3
    /\ sl.op = "previous"
    /\ sl.was = Some(0)
    /\ sl.selected = Some(sl.len - 1)
    /\ sl.prev_op = "select"

(***************************************************************************)
(* MouseListState (pages/components/mouselist.rs).  ml also records the    *)
(* last call (op), its argument (arg) and the position before it (was).    *)
(***************************************************************************)
MaxMouse == 3
MaxPosition == 4

\* MouseListState::new
MouseStateOf(max) ==
    [position |-> 0, view_size |-> 1, selected |-> None, max |-> max,
     op |-> "new", arg |-> None, was |-> 0]

MouseIdle == ml = MouseStateOf(0)

\* a select that does not look at max
mouse_select_unchecked(m, index) ==
    [m EXCEPT !.selected = index,
              !.position = IF index # None THEN index[1] ELSE m.position]

\* MouseListState::select
mouse_select(m, index) ==
    [m EXCEPT !.selected = index,
              !.position = IF index # None /\ index[1] < m.max THEN index[1]
                           ELSE m.position]

MouseStep(op, arg, m) ==
    /\ m.position <= MaxPosition
    /\ ml' = [m EXCEPT !.op = op, !.arg = arg, !.was = ml.position]
    /\ UNCHANGED notMouse

\* MouseListState::select(index)
MouseSelect ==
    \E index \in {None} \cup {Some(i) : i \in 0..MaxPosition} :
        MouseStep("select", index, mouse_select(ml, index))

\* MouseListState::scroll_down, scroll_up, scroll_page_down, scroll_page_up,
\* scroll_top and scroll_bottom
MouseScroll ==
    \/ MouseStep("scroll_down", None, [ml EXCEPT !.position = SatAdd(@, 1)])
    \/ MouseStep("scroll_up", None, [ml EXCEPT !.position = SatSub(@, 1)])
    \/ MouseStep("scroll_page_down", None, [ml EXCEPT !.position = SatAdd(@, ml.view_size)])
    \/ MouseStep("scroll_page_up", None, [ml EXCEPT !.position = SatSub(@, ml.view_size)])
    \/ MouseStep("scroll_top", None, [ml EXCEPT !.position = 0])
    \/ MouseStep("scroll_bottom", None,
                 [ml EXCEPT !.position = SatSub(ml.max, ml.view_size)])

\* the render of MouseList stores the height of the body area in view_size
MouseRender ==
    \E height \in 0..MaxMouse :
        MouseStep("render", None, [ml EXCEPT !.view_size = height])

NextMouse ==
    \/ MouseSelect
    \/ MouseScroll
    \/ MouseRender

\* C16: MouseListState::select(Some(i)) with i >= max leaves the position
\* unchanged, and with i < max sets the position to i; it returns normally
\* in both cases and the index is stored as the selection.
C16_SelectChecksMax ==
    (ml.op = "select" /\ ml.arg # None) =>
        /\ ml.selected = ml.arg
        /\ ml.arg[1] >= ml.max => ml.position = ml.was
        /\ ml.arg[1] < ml.max => ml.position = ml.arg[1]

\* select(Some(i)) with i >= max was called at a position other than i and
\* other than 0, and the position is still that one
C16_Witness ==
    /\ ml.op = "select"
    /\ ml.arg # None
    /\ ml.arg[1] >= ml.max
    /\ ml.was > 0
    /\ ml.was # ml.arg[1]
    /\ ml.position = ml.was

(***************************************************************************)
(* The Quit confirmation (pages/components/quit.rs).  qt also records the  *)
(* last call (kind), the last key with the action returned for it, the     *)
(* last two actions given to update, the fields before the last call       *)
(* (was) and the actions the last call sent on the channel.                *)
(***************************************************************************)
\* InputMode::CONFIRM.len()
ConfirmLen == 2

QuitActions == {"Forward", "Back", "SelectOption", "ClosePopup", "ToggleShowQuit", "Tick"}

QuitKeys == {"Esc", "Enter", "h", "l", "x"}

\* Quit::new: the Default of every field
NewQuit ==
    [show |-> FALSE, menu_index |-> 0, action_tx |-> FALSE, kind |-> "new",
     key |-> "", ret |-> None, act |-> "", prev |-> "",
     was |-> [show |-> FALSE, menu_index |-> 0], sent |-> <<>>]

QuitIdle == qt = NewQuit

\* Quit::handle_key_events
quit_handle_key(q, key) ==
    IF ~q.show THEN None
    ELSE CASE key = "Esc" -> Some("ClosePopup")
           [] key = "Enter" -> Some("SelectOption")
           [] key = "h" -> Some("Back")
           [] key = "l" -> Some("Forward")
           [] OTHER -> None

\* an update in which ToggleShowQuit leaves the menu index where it was
quit_update_keeping_index(q, action) ==
    IF action = "ToggleShowQuit" THEN [q EXCEPT !.show = TRUE, !.sent = <<>>]
    ELSE IF q.show /\ action = "SelectOption"
    THEN [q EXCEPT !.show = FALSE,
                   !.sent = IF q.menu_index = 1 /\ q.action_tx THEN <<"Quit">> ELSE <<>>]
    ELSE IF q.show /\ action = "Forward"
    THEN [q EXCEPT !.menu_index = (q.menu_index + 1) % ConfirmLen, !.sent = <<>>]
    ELSE [q EXCEPT !.sent = <<>>]

\* Quit::update: the match under `if self.show`, then the ToggleShowQuit test
quit_update(q, action) ==
    LET shown ==
            IF ~q.show THEN [q EXCEPT !.sent = <<>>]
            ELSE CASE action = "Forward" ->
                        [q EXCEPT !.menu_index = (q.menu_index + 1) % ConfirmLen,
                                  !.sent = <<>>]
                   [] action = "SelectOption" ->
                        IF q.menu_index = 0
                        THEN [q EXCEPT !.show = FALSE, !.sent = <<>>]
                        ELSE IF q.menu_index = 1
                        THEN [q EXCEPT !.show = FALSE,
                                       !.sent = IF q.action_tx THEN <<"Quit">> ELSE <<>>]
                        ELSE [q EXCEPT !.sent = <<>>]
                   [] action = "Back" ->
                        [q EXCEPT !.menu_index = IF q.menu_index = 0
                                                 THEN ConfirmLen - 1
                                                 ELSE (q.menu_index - 1) % ConfirmLen,
                                  !.sent = <<>>]
                   [] action = "ClosePopup" -> [q EXCEPT !.show = FALSE, !.sent = <<>>]
                   [] OTHER -> [q EXCEPT !.sent = <<>>]
    IN  IF action = "ToggleShowQuit"
        THEN [shown EXCEPT !.menu_index = 0, !.show = TRUE]
        ELSE shown

\* Quit::register_action_handler
QuitRegister ==
    /\ qt' = [qt EXCEPT !.action_tx = TRUE, !.kind = "register", !.sent = <<>>,
                        !.was = [show |-> qt.show, menu_index |-> qt.menu_index]]
    /\ UNCHANGED notQuit

\* a key event: Quit::handle_key_events
QuitKey ==
    \E key \in QuitKeys :
        /\ qt' = [qt EXCEPT !.kind = "key", !.key = key,
                            !.ret = quit_handle_key(qt, key), !.sent = <<>>,
                            !.was = [show |-> qt.show, menu_index |-> qt.menu_index]]
        /\ UNCHANGED notQuit

\* an action: Quit::update
QuitAction ==
    \E action \in QuitActions :
        /\ qt' = [quit_update(qt, action) EXCEPT
                      !.kind = "update", !.act = action, !.prev = qt.act,
                      !.was = [show |-> qt.show, menu_index |-> qt.menu_index]]
        /\ UNCHANGED notQuit

NextQuit ==
    \/ QuitRegister
    \/ QuitKey
    \/ QuitAction

\* C21: Quit is sent only by an update with SelectOption made while the
\* confirmation is shown with Yes (menu index 1) selected; every update with
\* ToggleShowQuit leaves the confirmation shown with No (index 0) selected;
\* and SelectOption or ClosePopup as the update directly after a
\* ToggleShowQuit sends nothing.
C21_QuitWaitsForYes ==
    /\ qt.sent # <<>> =>
           /\ qt.sent = <<"Quit">>
           /\ qt.kind = "update"
           /\ qt.act = "SelectOption"
           /\ qt.was.show
           /\ qt.was.menu_index = 1
    /\ (qt.kind = "update" /\ qt.act = "ToggleShowQuit") =>
           qt.show /\ qt.menu_index = 0
    /\ (qt.kind = "update" /\ qt.act \in {"SelectOption", "ClosePopup"}
            /\ qt.prev = "ToggleShowQuit") =>
           qt.sent = <<>> /\ ~qt.show

\* Yes was chosen and confirmed: the update sent Quit and closed the popup
C21_Witness ==
    /\ qt.kind = "update"
    /\ qt.act = "SelectOption"
    /\ qt.was.show
    /\ qt.was.menu_index = 1
    /\ qt.sent = <<"Quit">>
    /\ ~qt.show

(***************************************************************************)
(* AppConfiguration::init (utils/conf.rs).  Of the configuration only the  *)
(* four values configure looks at are kept; an absent Option is None.      *)
(* cf records one run: the state of the configuration file, the values in  *)
(* it, the arguments, and what init produced.                              *)
(***************************************************************************)
\* AppConfig::default
DefaultConfig ==
    [log_level |-> Some("info"), username |-> None, password |-> None,
     app_data_path |-> Some("~/.ttyx")]

\* the defaults clap gives Args (utils/args.rs)
DefaultArgs ==
    [log_level |-> Some("info"), username |-> None, password |-> None,
     app_data_path |-> Some("~/.ttyx")]

FileStates == {"missing", "uncreatable", "unreadable", "invalid", "undeserializable", "valid"}

FileConfigs ==
    [log_level : {Some("info"), Some("debug")}, username : {None, Some("file")},
     password : {None, Some("file")}, app_data_path : {Some("~/.ttyx"), Some("/data")}]

ArgValues ==
    [log_level : {Some("info"), Some(""), Some("trace")}, username : {None, Some("arg")},
     password : {None, Some("arg")}, app_data_path : {Some("~/.ttyx"), Some("/arg")}]

\* AppConfiguration::load_config with create_config: a file that exists is
\* built and deserialized, a missing one is created from the default
load_config(file, in_file) ==
    CASE file = "valid" -> [ok |-> TRUE, panics |-> FALSE, cfg |-> in_file]
      [] file = "missing" -> [ok |-> TRUE, panics |-> FALSE, cfg |-> DefaultConfig]
      [] file = "undeserializable" -> [ok |-> FALSE, panics |-> TRUE, cfg |-> DefaultConfig]
      [] OTHER -> [ok |-> FALSE, panics |-> FALSE, cfg |-> DefaultConfig]

\* AppConfiguration::configure
configure(cfg, args) ==
    [log_level |-> IF args.log_level = Some("") THEN cfg.log_level ELSE args.log_level,
     username |-> IF args.username # None THEN cfg.username ELSE args.username,
     password |-> IF args.password # None THEN cfg.password ELSE args.password,
     app_data_path |-> IF args.app_data_path = Some("") THEN cfg.app_data_path
                       ELSE args.app_data_path]

NewConf ==
    [phase |-> "start", file |-> "valid", in_file |-> DefaultConfig,
     args |-> DefaultArgs, loaded |-> DefaultConfig, load_ok |-> TRUE,
     returned |-> "", config |-> DefaultConfig]

ConfIdle == cf = NewConf

\* AppConfiguration::init(app_args)
ConfInit ==
    \E file \in FileStates, in_file \in FileConfigs, args \in ArgValues :
        LET l == load_config(file, in_file)
        IN  /\ cf.phase = "start"
            /\ file # "valid" => in_file = DefaultConfig
            /\ cf' = [phase |-> "done", file |-> file, in_file |-> in_file,
                      args |-> args, loaded |-> l.cfg, load_ok |-> l.ok,
                      returned |-> IF l.panics THEN "panic" ELSE "Ok",
                      config |-> IF l.panics THEN l.cfg ELSE configure(l.cfg, args)]
            /\ UNCHANGED notConf

NextConf == ConfInit

\* C22: AppConfiguration::init returns Ok for every state of the
\* configuration file, and when loading fails the configuration it goes on
\* with is the in-memory default.
C22_InitNeverAborts ==
    cf.phase = "done" =>
        /\ cf.returned = "Ok"
        /\ ~cf.load_ok => cf.loaded = DefaultConfig

\* C23: configure takes log_level, username, password and app_data_path
\* from the command line when the argument is not at its default, and keeps
\* the loaded value otherwise.
C23_OverridesOnlyPassedArgs ==
    (cf.phase = "done" /\ cf.returned = "Ok") =>
        \A f \in {"log_level", "username", "password", "app_data_path"} :
            cf.config[f] = IF cf.args[f] # DefaultArgs[f] THEN cf.args[f]
                           ELSE cf.loaded[f]

(***************************************************************************)
(* Key texts (utils/bindings.rs).  A text is a sequence of characters, a   *)
(* key code is [t, c] with c the character of a Char and the number of an  *)
(* F key, and a key event is [code, modifiers, kind, state].  kb records   *)
(* the one call of a run: the text, what it was built from and what came   *)
(* back.                                                                   *)
(***************************************************************************)
MaxPrefixes == 2

LowerLetters == <<"a", "b", "c", "d", "e", "f", "g", "h", "i", "j", "k", "l", "m",
                  "n", "o", "p", "q", "r", "s", "t", "u", "v", "w", "x", "y", "z">>

UpperLetters == <<"A", "B", "C", "D", "E", "F", "G", "H", "I", "J", "K", "L", "M",
                  "N", "O", "P", "Q", "R", "S", "T", "U", "V", "W", "X", "Y", "Z">>

\* char::to_ascii_lowercase and char::to_ascii_uppercase
LowerChar(c) ==
    IF \E i \in 1..26 : UpperLetters[i] = c
    THEN LowerLetters[CHOOSE i \in 1..26 : UpperLetters[i] = c]
    ELSE c

UpperChar(c) ==
    IF \E i \in 1..26 : LowerLetters[i] = c
    THEN UpperLetters[CHOOSE i \in 1..26 : LowerLetters[i] = c]
    ELSE c

to_ascii_lowercase(raw) == [i \in 1..Len(raw) |-> LowerChar(raw[i])]

\* a character outside ASCII takes more than one byte of a str
NonAscii == {"U+00E9"}

ByteLen(raw) == Len(raw) + Cardinality({i \in 1..Len(raw) : raw[i] \in NonAscii})

starts_with(raw, p) == Len(raw) >= Len(p) /\ SubSeq(raw, 1, Len(p)) = p

Skip(raw, n) == SubSeq(raw, n + 1, Len(raw))

KeyCode(t, c) == [t |-> t, c |-> c]

\* KeyEvent::new
KeyEvent(code, modifiers) ==
    [code |-> code, modifiers |-> modifiers, kind |-> "Press", state |-> "NONE"]

Ok(v) == [ok |-> TRUE, v |-> v]

Err == [ok |-> FALSE, v |-> <<>>]

\* extract_modifiers: the loop, entered with the modifiers found so far
RECURSIVE extract_modifiers(_, _)
extract_modifiers(raw, modifiers) ==
    IF starts_with(raw, <<"c", "t", "r", "l", "-">>)
    THEN extract_modifiers(Skip(raw, 5), modifiers \cup {"CONTROL"})
    ELSE IF starts_with(raw, <<"a", "l", "t", "-">>)
    THEN extract_modifiers(Skip(raw, 4), modifiers \cup {"ALT"})
    ELSE IF starts_with(raw, <<"s", "h", "i", "f", "t", "-">>)
    THEN extract_modifiers(Skip(raw, 6), modifiers \cup {"SHIFT"})
    ELSE [remaining |-> raw, modifiers |-> modifiers]

\* parse_key_code_with_modifiers
parse_key_code_with_modifiers(raw, modifiers) ==
    CASE raw = <<"e", "s", "c">> -> Ok(KeyEvent(KeyCode("Esc", ""), modifiers))
      [] raw = <<"e", "n", "t", "e", "r">> -> Ok(KeyEvent(KeyCode("Enter", ""), modifiers))
      [] raw = <<"l", "e", "f", "t">> -> Ok(KeyEvent(KeyCode("Left", ""), modifiers))
      [] raw = <<"r", "i", "g", "h", "t">> -> Ok(KeyEvent(KeyCode("Right", ""), modifiers))
      [] raw = <<"u", "p">> -> Ok(KeyEvent(KeyCode("Up", ""), modifiers))
      [] raw = <<"d", "o", "w", "n">> -> Ok(KeyEvent(KeyCode("Down", ""), modifiers))
      [] raw = <<"h", "o", "m", "e">> -> Ok(KeyEvent(KeyCode("Home", ""), modifiers))
      [] raw = <<"e", "n", "d">> -> Ok(KeyEvent(KeyCode("End", ""), modifiers))
      [] raw = <<"p", "a", "g", "e", "u", "p">> -> Ok(KeyEvent(KeyCode("PageUp", ""), modifiers))
      [] raw = <<"p", "a", "g", "e", "d", "o", "w", "n">> -> Ok(KeyEvent(KeyCode("PageDown", ""), modifiers))
      [] raw = <<"b", "a", "c", "k", "t", "a", "b">> -> Ok(KeyEvent(KeyCode("BackTab", ""), modifiers \cup {"SHIFT"}))
      [] raw = <<"b", "a", "c", "k", " ", "t", "a", "b">> -> Ok(KeyEvent(KeyCode("BackTab", ""), modifiers \cup {"SHIFT"}))
      [] raw = <<"b", "a", "c", "k", "s", "p", "a", "c", "e">> -> Ok(KeyEvent(KeyCode("Backspace", ""), modifiers))
      [] raw = <<"d", "e", "l", "e", "t", "e">> -> Ok(KeyEvent(KeyCode("Delete", ""), modifiers))
      [] raw = <<"i", "n", "s", "e", "r", "t">> -> Ok(KeyEvent(KeyCode("Insert", ""), modifiers))
      [] raw = <<"f", "1">> -> Ok(KeyEvent(KeyCode("F", "1"), modifiers))
      [] raw = <<"f", "2">> -> Ok(KeyEvent(KeyCode("F", "2"), modifiers))
      [] raw = <<"f", "3">> -> Ok(KeyEvent(KeyCode("F", "3"), modifiers))
      [] raw = <<"f", "4">> -> Ok(KeyEvent(KeyCode("F", "4"), modifiers))
      [] raw = <<"f", "5">> -> Ok(KeyEvent(KeyCode("F", "5"), modifiers))
      [] raw = <<"f", "6">> -> Ok(KeyEvent(KeyCode("F", "6"), modifiers))
      [] raw = <<"f", "7">> -> Ok(KeyEvent(KeyCode("F", "7"), modifiers))
      [] raw = <<"f", "8">> -> Ok(KeyEvent(KeyCode("F", "8"), modifiers))
      [] raw = <<"f", "9">> -> Ok(KeyEvent(KeyCode("F", "9"), modifiers))
      [] raw = <<"f", "1", "0">> -> Ok(KeyEvent(KeyCode("F", "10"), modifiers))
      [] raw = <<"f", "1", "1">> -> Ok(KeyEvent(KeyCode("F", "11"), modifiers))
      [] raw = <<"f", "1", "2">> -> Ok(KeyEvent(KeyCode("F", "12"), modifiers))
      [] raw = <<"s", "p", "a", "c", "e">> -> Ok(KeyEvent(KeyCode("Char", " "), modifiers))
      [] raw = <<"h", "y", "p", "h", "e", "n">> -> Ok(KeyEvent(KeyCode("Char", "-"), modifiers))
      [] raw = <<"m", "i", "n", "u", "s">> -> Ok(KeyEvent(KeyCode("Char", "-"), modifiers))
      [] raw = <<"t", "a", "b">> -> Ok(KeyEvent(KeyCode("Tab", ""), modifiers))
      [] ByteLen(raw) = 1 ->
            Ok(KeyEvent(KeyCode("Char", IF "SHIFT" \in modifiers THEN UpperChar(raw[1])
                                        ELSE raw[1]),
                        modifiers))
      [] OTHER -> Err

\* a parse_key_event that keeps the case of its input
parse_key_event_cased(raw) ==
    LET e == extract_modifiers(raw, {})
    IN  parse_key_code_with_modifiers(e.remaining, e.modifiers)

\* parse_key_event
parse_key_event(raw) ==
    LET e == extract_modifiers(to_ascii_lowercase(raw), {})
    IN  parse_key_code_with_modifiers(e.remaining, e.modifiers)


Count(raw, c) == Cardinality({i \in 1..Len(raw) : raw[i] = c})

\* the first index at which "><" starts, 0 when raw does not contain it
FindSeparator(raw) ==
    LET at == {i \in 1..(Len(raw) - 1) : raw[i] = ">" /\ raw[i + 1] = "<"}
    IN  IF at = {} THEN 0 ELSE CHOOSE i \in at : \A j \in at : i <= j

\* str::split("><")
RECURSIVE Split(_)
Split(raw) ==
    LET i == FindSeparator(raw)
    IN  IF i = 0 THEN <<raw>>
        ELSE <<SubSeq(raw, 1, i - 1)>> \o Split(Skip(raw, i + 1))

strip_prefix(raw, c) == IF raw # <<>> /\ raw[1] = c THEN Skip(raw, 1) ELSE raw

\* the closure of parse_key_sequence: the '<' in front is taken off, or else
\* the '>' at the end
Unbracket(seq) ==
    IF seq # <<>> /\ seq[1] = "<" THEN Skip(seq, 1)
    ELSE IF seq # <<>> /\ seq[Len(seq)] = ">" THEN SubSeq(seq, 1, Len(seq) - 1)
    ELSE seq

\* collect::<Result<Vec<_>>>: the first error, or all the values
Collect(results) ==
    IF \E i \in 1..Len(results) : ~results[i].ok THEN Err
    ELSE Ok([i \in 1..Len(results) |-> results[i].v])

\* a parse_key_sequence that leaves the brackets on the pieces
parse_key_sequence_bracketed(raw) ==
    IF Count(raw, ">") # Count(raw, "<") THEN Err
    ELSE LET pieces == Split(raw)
         IN  Collect([i \in 1..Len(pieces) |-> parse_key_event(pieces[i])])

\* parse_key_sequence
parse_key_sequence(raw) ==
    IF Count(raw, ">") # Count(raw, "<") THEN Err
    ELSE LET inner == IF FindSeparator(raw) = 0
                      THEN strip_prefix(strip_prefix(raw, "<"), ">")
                      ELSE raw
             pieces == Split(inner)
         IN  Collect([i \in 1..Len(pieces) |-> parse_key_event(Unbracket(pieces[i]))])

\* the decimal digits of the number of an F key
DigitsOf(n) ==
    CASE n = "10" -> <<"1", "0">>
      [] n = "11" -> <<"1", "1">>
      [] n = "12" -> <<"1", "2">>
      [] OTHER -> <<n>>

\* [&str]::join("-")
RECURSIVE Join(_)
Join(parts) ==
    IF Len(parts) = 1 THEN parts[1]
    ELSE parts[1] \o <<"-">> \o Join(Tail(parts))

\* the name key_event_to_string gives a key code
KeyCodeText(code) ==

    CASE code.t = "Backspace" -> <<"b", "a", "c", "k", "s", "p", "a", "c", "e">>
      [] code.t = "Enter" -> <<"e", "n", "t", "e", "r">>
      [] code.t = "Left" -> <<"l", "e", "f", "t">>
      [] code.t = "Right" -> <<"r", "i", "g", "h", "t">>
      [] code.t = "Up" -> <<"u", "p">>
      [] code.t = "Down" -> <<"d", "o", "w", "n">>
      [] code.t = "Home" -> <<"h", "o", "m", "e">>
      [] code.t = "End" -> <<"e", "n", "d">>
      [] code.t = "PageUp" -> <<"p", "a", "g", "e", "u", "p">>
      [] code.t = "PageDown" -> <<"p", "a", "g", "e", "d", "o", "w", "n">>
      [] code.t = "Tab" -> <<"t", "a", "b">>
      [] code.t = "BackTab" -> <<"b", "a", "c", "k", "t", "a", "b">>
      [] code.t = "Delete" -> <<"d", "e", "l", "e", "t", "e">>
      [] code.t = "Insert" -> <<"i", "n", "s", "e", "r", "t">>
      [] code.t = "F" -> <<"f", "(">> \o DigitsOf(code.c) \o <<")">>
      [] code.t = "Char" /\ code.c = " " -> <<"s", "p", "a", "c", "e">>
      [] code.t = "Char" -> <<code.c>>
      [] code.t = "Esc" -> <<"e", "s", "c">>
      [] OTHER -> <<>>

\* key_event_to_string
key_event_to_string(key_event) ==
    LET ctrl == IF "CONTROL" \in key_event.modifiers THEN <<<<"c", "t", "r", "l">>>> ELSE <<>>
        shift == IF "SHIFT" \in key_event.modifiers THEN <<<<"s", "h", "i", "f", "t">>>> ELSE <<>>
        alt == IF "ALT" \in key_event.modifiers THEN <<<<"a", "l", "t">>>> ELSE <<>>
        modifiers == ctrl \o shift \o alt
        joined == IF modifiers = <<>> THEN <<>>
                  ELSE Join(modifiers) \o <<"-">>
    IN  joined \o KeyCodeText(key_event.code)

\* one entry of a mode's HashMap<Vec<KeyEvent>, Action>
Binding(t, c, modifiers, action) ==
    [keys |-> <<KeyEvent(KeyCode(t, c), modifiers)>>, action |-> action]

\* KeyBindings::default
DefaultBindings ==
    [Global |-> {Binding("Char", "q", {}, "ToggleShowQuit"),
                  Binding("Char", ":", {}, "ToggleLog"),
                  Binding("Char", " ", {"CONTROL"}, "ToggleShowHelp"),
                  Binding("Char", "x", {}, "ClosePopup"),
                  Binding("Tab", "", {}, "ToggleNav"),
                  Binding("Char", "h", {}, "PreviousView"),
                  Binding("Char", "l", {}, "NextView"),
                  Binding("Char", " ", {}, "ToggleShowHelp"),
                  Binding("Char", "k", {}, "Back"),
                  Binding("Char", "j", {}, "Forward")},
     Settings |-> {Binding("Backspace", "", {}, "Home")},
     Chat |-> {Binding("Char", "/", {}, "EnterInput"),
                Binding("Char", "c", {}, "ToggleChats"),
                Binding("Char", "u", {}, "ToggleUsers"),
                Binding("Char", "k", {}, "Back"),
                Binding("Char", "j", {}, "Forward")},
     Map |-> {},
     Filebrowser |-> {Binding("Tab", "", {}, "ToggleSidebar"),
                       Binding("Enter", "", {}, "SelectOption")},
     MusicPlayer |-> {Binding("Tab", "", {}, "ToggleSidebar"),
                       Binding("Char", " ", {}, "PausePlay"),
                       Binding("Char", "o", {}, "OpenFilepicker"),
                       Binding("Enter", "", {}, "SelectOption")},
     Blog |-> {Binding("Tab", "", {}, "ToggleSidebar"),
                Binding("Char", "f", {}, "OpenFilepicker"),
                Binding("Enter", "", {}, "SelectOption")},
     Login |-> {Binding("BackTab", "", {"SHIFT"}, "Back"),
                 Binding("Tab", "", {}, "Forward")},
     Home |-> {Binding("Char", "/", {}, "EnterInsert")}]

BindingModes == DOMAIN DefaultBindings

\* HashMap::get on the bindings of a mode: the actions stored under keys
Lookup(mode, keys) == {b.action : b \in {x \in DefaultBindings[mode] : x.keys = keys}}

Modifiers == {"CONTROL", "ALT", "SHIFT"}

\* the prefixes a key text is built from, with the modifier each names
Prefixes ==
    {[text |-> <<"c", "t", "r", "l", "-">>, names |-> "CONTROL"], [text |-> <<"a", "l", "t", "-">>, names |-> "ALT"],
     [text |-> <<"s", "h", "i", "f", "t", "-">>, names |-> "SHIFT"], [text |-> <<"C", "T", "R", "L", "-">>, names |-> "CONTROL"]}

NoCode == KeyCode("", "")

\* the key names a text ends in: known names with the key they name, single
\* characters, and names that are neither
KeyTexts ==
    {[text |-> <<"e", "s", "c">>, kind |-> "name", code |-> KeyCode("Esc", "")],
     [text |-> <<"E", "n", "t", "e", "r">>, kind |-> "name", code |-> KeyCode("Enter", "")],
     [text |-> <<"t", "a", "b">>, kind |-> "name", code |-> KeyCode("Tab", "")],
     [text |-> <<"b", "a", "c", "k", "t", "a", "b">>, kind |-> "name", code |-> KeyCode("BackTab", "")],
     [text |-> <<"s", "p", "a", "c", "e">>, kind |-> "name", code |-> KeyCode("Char", " ")],
     [text |-> <<"f", "1", "2">>, kind |-> "name", code |-> KeyCode("F", "12")],
     [text |-> <<"p", "a", "g", "e", "u", "p">>, kind |-> "name", code |-> KeyCode("PageUp", "")],
     [text |-> <<"a">>, kind |-> "char", code |-> KeyCode("Char", "a")],
     [text |-> <<"Q">>, kind |-> "char", code |-> KeyCode("Char", "Q")],
     [text |-> <<"-">>, kind |-> "char", code |-> KeyCode("Char", "-")],
     [text |-> <<"U+00E9">>, kind |-> "char", code |-> KeyCode("Char", "U+00E9")],
     [text |-> <<"i", "n", "v", "a", "l", "i", "d", "-", "k", "e", "y">>, kind |-> "other", code |-> NoCode],
     [text |-> <<"f", "1", "3">>, kind |-> "other", code |-> NoCode],
     [text |-> <<"a", "b">>, kind |-> "other", code |-> NoCode],
     [text |-> <<>>, kind |-> "other", code |-> NoCode]}

\* the key codes printed by key_event_to_string
KeyCodes ==
    {KeyCode("Char", "a"), KeyCode("Char", "Q"), KeyCode("Char", " "), KeyCode("Char", "-"),
     KeyCode("Esc", ""), KeyCode("Enter", ""), KeyCode("Tab", ""), KeyCode("BackTab", ""),
     KeyCode("Backspace", ""), KeyCode("Left", ""), KeyCode("PageDown", ""), KeyCode("Delete", ""),
     KeyCode("F", "1"), KeyCode("F", "12"), KeyCode("Null", "")}

NewKeys ==
    [op |-> "new", named |-> {}, name |-> [text |-> <<>>, kind |-> "other", code |-> NoCode],
     key |-> KeyEvent(NoCode, {}), mode |-> "", action |-> "", raw |-> <<>>,
     result |-> Err, found |-> {}]

KeysIdle == kb = NewKeys

RECURSIVE Flatten(_)
Flatten(texts) == IF texts = <<>> THEN <<>> ELSE Head(texts) \o Flatten(Tail(texts))

PrefixSeqs == UNION {[1..n -> Prefixes] : n \in 0..MaxPrefixes}

\* parse_key_event on a text made of prefixes and a key name
ParseKey ==
    \E prefixes \in PrefixSeqs, name \in KeyTexts :
        LET raw == Flatten([i \in 1..Len(prefixes) |-> prefixes[i].text]) \o name.text
        IN  /\ kb.op = "new"
            /\ kb' = [NewKeys EXCEPT
                          !.op = "parse",
                          !.named = {prefixes[i].names : i \in 1..Len(prefixes)},
                          !.name = name, !.raw = raw,
                          !.result = parse_key_event(raw)]
            /\ UNCHANGED notKeys

\* key_event_to_string on a key event, and parse_key_event on the text
PrintKey ==
    \E code \in KeyCodes, modifiers \in SUBSET Modifiers :
        LET raw == key_event_to_string(KeyEvent(code, modifiers))
        IN  /\ kb.op = "new"
            /\ kb' = [NewKeys EXCEPT
                          !.op = "print", !.key = KeyEvent(code, modifiers),
                          !.raw = raw, !.result = parse_key_event(raw)]
            /\ UNCHANGED notKeys

\* parse_key_sequence on the bracketed text of a default binding's key, and
\* the lookup of the result in the default bindings of the mode
LookupKey ==
    \E mode \in BindingModes :
        \E b \in DefaultBindings[mode] :
            LET raw == <<"<">> \o key_event_to_string(b.keys[1]) \o <<">">>
                parsed == parse_key_sequence(raw)
            IN  /\ kb.op = "new"
                /\ kb' = [NewKeys EXCEPT
                              !.op = "lookup", !.key = b.keys[1], !.mode = mode,
                              !.action = b.action, !.raw = raw, !.result = parsed,
                              !.found = IF parsed.ok THEN Lookup(mode, parsed.v) ELSE {}]
                /\ UNCHANGED notKeys

NextKeys ==
    \/ ParseKey
    \/ PrintKey
    \/ LookupKey

\* the statement of C24 as the specification words it: the key named, with
\* exactly the modifiers named, for every known name and single character
C24_ExactlyNamedModifiers ==
    kb.op = "parse" =>
        IF kb.name.kind = "other" THEN ~kb.result.ok
        ELSE /\ kb.result.ok
             /\ kb.result.v.modifiers = kb.named
             /\ kb.result.v.code.t = kb.name.code.t
             /\ LowerChar(kb.result.v.code.c) = LowerChar(kb.name.code.c)

\* C24: parse_key_event, comparing without regard to ASCII case, accepts any
\* sequence of ctrl-/alt-/shift- prefixes followed by a known key name or a
\* single ASCII character.  It returns that key with the named modifiers,
\* and SHIFT as well when the key is backtab; a character comes back in
\* lower case, or in upper case when shift is named.  Any other name,
\* a single character outside ASCII included, gives an error.
C24_ParsesNamedKeys ==
    kb.op = "parse" =>
        IF kb.name.kind = "name"
        THEN /\ kb.result.ok
             /\ kb.result.v.code = kb.name.code
             /\ kb.result.v.modifiers =
                    kb.named \cup (IF kb.name.code.t = "BackTab" THEN {"SHIFT"} ELSE {})
        ELSE IF kb.name.kind = "char" /\ kb.name.text[1] \notin NonAscii
        THEN /\ kb.result.ok
             /\ kb.result.v.code =
                    KeyCode("Char", IF "SHIFT" \in kb.named
                                    THEN UpperChar(LowerChar(kb.name.text[1]))
                                    ELSE LowerChar(kb.name.text[1]))
             /\ kb.result.v.modifiers = kb.named
        ELSE ~kb.result.ok

\* ctrl-backtab was parsed: BackTab came back with CONTROL and SHIFT
C24_Witness ==
    /\ kb.op = "parse"
    /\ kb.name.code = KeyCode("BackTab", "")
    /\ kb.named = {"CONTROL"}
    /\ kb.result.ok
    /\ kb.result.v.modifiers = {"CONTROL", "SHIFT"}

\* C25: parse_key_event(key_event_to_string(k)) returns k for every key
\* event k.
C25_PrintThenParse ==
    kb.op = "print" => kb.result.ok /\ kb.result.v = kb.key

\* C26: for every default binding (mode, key, action), parse_key_sequence on
\* the bracketed text of the key gives a sequence that the default bindings
\* of the mode map to that action.
C26_DefaultBindingsFound ==
    kb.op = "lookup" => kb.result.ok /\ kb.found = {kb.action}

\* "<q>" was looked up in the Global bindings and gave ToggleShowQuit
C26_Witness ==
    /\ kb.op = "lookup"
    /\ kb.mode = "Global"
    /\ kb.raw = <<"<", "q", ">">>
    /\ kb.found = {"ToggleShowQuit"}

(***************************************************************************)
(* The login form with mouse clicks, with key events and clicks that       *)
(* arrive while actions still wait in the channel (the channel is drained  *)
(* once per frame), and with room for a second request task.               *)
(***************************************************************************)
MaxPending == 2
MaxOutstanding == 2

\* Login::handle_mouse_events when the stored mouse event is a left press
\* inside self.areas[i]; any other call changes nothing
login_click(l, i) ==
    CASE Items[i + 1] = "Email" ->
            [lg |-> [l EXCEPT !.menu_index = i, !.mode = "InsertUser"],
             sent |-> <<Act("CompleteInput")>>]
      [] Items[i + 1] = "Password" ->
            [lg |-> [l EXCEPT !.menu_index = i, !.mode = "InsertPass"],
             sent |-> <<Act("CompleteInput")>>]
      [] Items[i + 1] = "Submit" ->
            [lg |-> [l EXCEPT !.menu_index = i], sent |-> <<Act("Login")>>]
      [] Items[i + 1] = "Switch" ->
            [lg |-> [l EXCEPT !.menu_index = i], sent |-> <<Act("Register")>>]
      [] OTHER ->
            [lg |-> [l EXCEPT !.menu_index = i], sent |-> <<Act("Home")>>]

\* a mouse event: Login::handle_mouse_events
FormClick ==
    \E i \in 0..(Len(Items) - 1) :
        /\ ~lg.crashed
        /\ Len(chan) < MaxPending
        /\ lg' = login_click(lg, i).lg
        /\ chan' = chan \o login_click(lg, i).sent
        /\ lev' = Step("click")
        /\ UNCHANGED tasks
        /\ UNCHANGED notLogin

\* a key event: Login::handle_key_events
FormKey ==
    \E key \in LoginKeys :
        LET r == LoginHandleKey(lg, key)
        IN  /\ ~lg.crashed
            /\ Len(chan) < MaxPending
            /\ r.lg.menu_index <= MaxMenu
            /\ lg' = r.lg
            /\ chan' = chan \o r.sent \o r.ret
            /\ lev' = Step("key")
            /\ UNCHANGED tasks
            /\ UNCHANGED notLogin

\* the oldest action of the channel goes to Login::update
FormDispatch ==
    /\ ~lg.crashed
    /\ chan # <<>>
    /\ LET r == LoginUpdate(lg, Head(chan))
       IN  /\ Len(tasks) + Len(r.req.spawned) <= MaxOutstanding
           /\ lg' = r.lg
           /\ chan' = Tail(chan) \o r.req.sent \o r.follow
           /\ tasks' = tasks \o r.req.spawned
           /\ lev' = Step("update")
    /\ UNCHANGED notLogin

NextForm ==
    \/ FormClick
    \/ FormKey
    \/ FormDispatch
    \/ LoginBinding
    \/ TaskStep
    \/ LoginDraw

\* C27: in every reachable state of the Login page menu_index is an index
\* of Items::ALL (0..4): no Items::ALL[menu_index] in update or draw is out
\* of range and no menu_index -= 1 underflows.
C27_MenuIndexInRange ==
    /\ lg.menu_index \in 0..(Len(Items) - 1)
    /\ ~lg.crashed

\* C28: at most one login or registration request is outstanding at a
\* time: a Login or Register action processed while a request task has not
\* ended does not spawn a second task.
C28_OneRequestOutstanding == Len(tasks) <= 1

\* C29: a login or registration task that has sent EnterProcessing sends
\* EnterNormal once its HTTP call has completed, for every outcome of the
\* call, so that the form does not stay in the Processing mode.
C29_TaskEndsWithEnterNormal ==
    lev.kind = "ended" =>
        \E i \in 1..Len(lev.sent) : lev.sent[i] = Act("EnterNormal")

\* C30: after any sequence of actions processed by Filebrowser::update the
\* content viewer is scrollable exactly when the sidebar is hidden.
C30_ScrollableIffSidebarHidden ==
    ~fb.crashed => (fb.content.scrollable <=> ~fb.sidebar)

\* C31: Enter in the Filebrowser with the sidebar shown, the mode Select and
\* a regular file selected in a registered picker returns SelectOption, which
\* opens the file, and sends no Toast on the channel.
C31_EnterOnFileSendsNoToast ==
    [][(/\ fbev'.kind = "key"
        /\ fbev'.act = "Enter"
        /\ fb.sidebar
        /\ fb.mode = "Select"
        /\ fb.picker.action_tx
        /\ fb.picker.selected # None
        /\ ~Wrapped(fb.picker.selected)
        /\ fb.picker.selected[1] < Len(fb.picker.files)
        /\ ~fb.picker.files[fb.picker.selected[1] + 1]) =>
           /\ fbev'.ret = <<Act("SelectOption")>>
           /\ \A i \in 1..Len(fbev'.sent) : fbev'.sent[i].type # "Toast"]_vars

\* C32: the entry Toast::update removes on CloseToast is the entry draw
\* displays, the front one (index 0), also when several entries are queued.
C32_CloseRemovesFront ==
    [][tev'.kind = "CloseToast" =>
           toasts' = IF toasts = <<>> THEN <<>> ELSE Tail(toasts)]_vars

\* C18: once Filebrowser::register_action_handler has run, the page and both
\* of its children (the Filestats content and the Filepicker) hold an action
\* sender, in that state and in every later one.
C18_ChildrenRegistered ==
    fb.action_tx => fb.content.action_tx /\ fb.picker.action_tx

\* C19: Filebrowser::draw leaves the logical state of its children as it
\* was: the content's ScrollState (position, view_size, max) and flags, and
\* the picker, have the same values after a draw that returns as before it.
C19_DrawKeepsState ==
    [][(fbev'.kind = "draw" /\ ~fb'.crashed) =>
           /\ fb'.content = fb.content
           /\ fb'.picker = fb.picker]_vars

\* C20: Login::handle_key_events is a pure decision function: a key event
\* produces at most one action, counting the one returned and the ones sent
\* on the channel, and leaves the mode and the menu cursor as they were.
C20_KeyProducesAtMostOne ==
    [][lev'.kind = "key" =>
           /\ Len(chan') - Len(chan) <= 1
           /\ lg'.mode = lg.mode
           /\ lg'.menu_index = lg.menu_index]_vars

\* a call moved the position by d, or to where position + d is cut off at 0
\* or at the upper limit of the range, taken as max or as max - view_size
MovedBy(before, after, d) ==
    \/ after.position = before.position + d
    \/ \E hi \in {before.max, SatSub(before.max, before.view_size)} :
           after.position = Clamp(before.position + d, 0, hi)

\* C17: for ScrollState and MouseListState, scroll_down and scroll_up move
\* the position by exactly one and scroll_page_down and scroll_page_up by
\* exactly view_size, except where the result saturates at the lower or
\* upper limit of the scroll range.
C17_StepSizes ==
    [][/\ sop' = "scroll_down" => MovedBy(ss, ss', 1)
       /\ sop' = "scroll_up" => MovedBy(ss, ss', -1)
       /\ sop' = "scroll_page_down" => MovedBy(ss, ss', ss.view_size)
       /\ sop' = "scroll_page_up" => MovedBy(ss, ss', -ss.view_size)
       /\ ml'.op = "scroll_down" => MovedBy(ml, ml', 1)
       /\ ml'.op = "scroll_up" => MovedBy(ml, ml', -1)
       /\ ml'.op = "scroll_page_down" => MovedBy(ml, ml', ml.view_size)
       /\ ml'.op = "scroll_page_up" => MovedBy(ml, ml', -ml.view_size)]_vars

(***************************************************************************)
(* Specifications                                                          *)
(***************************************************************************)
InitScroll ==
    /\ \E m \in 0..MaxM, v \in 0..MaxV : ss = ScrollStateOf(m, v)
    /\ sop = "new"
    /\ AppIdle
    /\ LoginIdle
    /\ ToastIdle
    /\ BrowserIdle
    /\ ListIdle
    /\ MouseIdle
    /\ QuitIdle
    /\ ConfIdle
    /\ KeysIdle

SpecScroll == InitScroll /\ [][NextScroll]_vars

SpecPage == InitScroll /\ [][NextPage]_vars

InitApp ==
    /\ ScrollIdle
    /\ AppIdle
    /\ LoginIdle
    /\ ToastIdle
    /\ BrowserIdle
    /\ ListIdle
    /\ MouseIdle
    /\ QuitIdle
    /\ ConfIdle
    /\ KeysIdle

SpecApp == InitApp /\ [][NextApp]_vars

InitLogin ==
    /\ ScrollIdle
    /\ AppIdle
    /\ LoginIdle
    /\ ToastIdle
    /\ BrowserIdle
    /\ ListIdle
    /\ MouseIdle
    /\ QuitIdle
    /\ ConfIdle
    /\ KeysIdle

SpecLogin == InitLogin /\ [][NextLogin]_vars

SpecForm == InitLogin /\ [][NextForm]_vars

InitToast ==
    /\ ScrollIdle
    /\ AppIdle
    /\ LoginIdle
    /\ ToastIdle
    /\ BrowserIdle
    /\ ListIdle
    /\ MouseIdle
    /\ QuitIdle
    /\ ConfIdle
    /\ KeysIdle

SpecToast == InitToast /\ [][NextToast]_vars

InitBrowser ==
    /\ ScrollIdle
    /\ AppIdle
    /\ LoginIdle
    /\ ToastIdle
    /\ \E listing \in Listings : fb = NewFilebrowser(listing)
    /\ fbev = BrowserEvent("new", "")
    /\ ListIdle
    /\ MouseIdle
    /\ QuitIdle
    /\ ConfIdle
    /\ KeysIdle

SpecBrowser == InitBrowser /\ [][NextBrowser]_vars

InitSelect ==
    /\ ScrollIdle
    /\ AppIdle
    /\ LoginIdle
    /\ ToastIdle
    /\ \E height \in 0..MaxViewport : fb = BrowserOnFile(height)
    /\ fbev = BrowserEvent("layout", "")
    /\ ListIdle
    /\ MouseIdle
    /\ QuitIdle
    /\ ConfIdle
    /\ KeysIdle

SpecSelect == InitSelect /\ [][SelectFile]_vars

InitList ==
    /\ ScrollIdle
    /\ AppIdle
    /\ LoginIdle
    /\ ToastIdle
    /\ BrowserIdle
    /\ \E len \in 0..MaxItems : sl = ListOf(len)
    /\ MouseIdle
    /\ QuitIdle
    /\ ConfIdle
    /\ KeysIdle

SpecList == InitList /\ [][NextList]_vars

InitMouse ==
    /\ ScrollIdle
    /\ AppIdle
    /\ LoginIdle
    /\ ToastIdle
    /\ BrowserIdle
    /\ ListIdle
    /\ \E max \in 0..MaxMouse : ml = MouseStateOf(max)
    /\ QuitIdle
    /\ ConfIdle
    /\ KeysIdle

SpecMouse == InitMouse /\ [][NextMouse]_vars

InitQuit ==
    /\ ScrollIdle
    /\ AppIdle
    /\ LoginIdle
    /\ ToastIdle
    /\ BrowserIdle
    /\ ListIdle
    /\ MouseIdle
    /\ QuitIdle
    /\ ConfIdle
    /\ KeysIdle

SpecQuit == InitQuit /\ [][NextQuit]_vars

InitConf == InitQuit

SpecConf == InitConf /\ [][NextConf]_vars

InitKeys == InitQuit

SpecKeys == InitKeys /\ [][NextKeys]_vars

====
